---- MODULE Spec2Model ----
(***************************************************************************)
(* FS17_Mod_List: a model of the catalogue generator.                      *)
(*                                                                         *)
(*   src/FS17_Mod_List.py  the script: main, find_icon, get_icon,          *)
(*                         get_zipfiles                                    *)
(*   src/fs17.py           Mod.load, Mod._fix_xml, Mod._find_icon,         *)
(*                         Mod.get_icon, Mod.l10n, Mod._l10n, Item         *)
(*                                                                         *)
(* Text is modelled as a sequence of one-character strings, so that        *)
(* str.replace, str.startswith, str.endswith and the two re.sub calls are  *)
(* computed as Python computes them.  None is the Python value None.       *)
(***************************************************************************)
EXTENDS Integers, Sequences, FiniteSets, TLC

VARIABLES
    \* Mod._fix_xml applied to a descriptor text (fs17.py 129-164)
    xml, fixed, fixedTwice, fixPc,
    \* Mod.l10n applied to a node of a descriptor (fs17.py 245-282);
    \* modDesc is also the descriptor of the Mod that Mod.load fills
    modDesc, node, l10nResult, l10nPc,
    \* the icon lookup: Mod._find_icon (fs17.py 168-202) and find_icon
    \* (FS17_Mod_List.py 224-256), with their get_icon
    iconVariant, zipStatus, fsFiles, declared, icon_file, attempts, iconPc,
    \* the store items of Mod.load (fs17.py 99-123)
    storeItemEls, store_item_xmls, store_items, itemIdx, loadExc, loadPc,
    \* main (FS17_Mod_List.py 50-200)
    vault, list_of_zipfiles, idx, other_mods, map_mods, saved, printed,
    exitStatus, uncaught, mainPc,
    \* Tag.html applied to a tree of tags (tiny_html.py 36-80)
    tagTree, tagIndent, htmlOut, htmlPc,
    \* the Tag objects built with Tag(), Tag.tag and Tag.add (tiny_html.py 15-32): the children list of each object, by object
    tagChildren,
    \* the title of a mod: Mod._get_mod_title (fs17.py 238-242) and get_mod_title (FS17_Mod_List.py 206-219), on modDesc with node as its title element
    titleVariant, titleResult, titlePc,
    \* the installed marker of one archive in main (FS17_Mod_List.py 52-56, 85, 144-175)
    saveDir, zipfile, installed_mods, is_installed, block, instPc,
    \* the catalog assembler: the categories of the entries and the navigation
    navEntries, navCategories, navLabels, navOrder, navShown, navPc

fixVars == <<xml, fixed, fixedTwice, fixPc>>
l10nVars == <<modDesc, node, l10nResult, l10nPc>>
iconVars == <<iconVariant, zipStatus, fsFiles, declared, icon_file, attempts, iconPc>>
loadVars == <<storeItemEls, store_item_xmls, store_items, itemIdx, loadExc, loadPc>>
mainVars == <<vault, list_of_zipfiles, idx, other_mods, map_mods, saved, printed,
              exitStatus, uncaught, mainPc>>
htmlVars == <<tagTree, tagIndent, htmlOut, htmlPc>>
treeVars == <<tagChildren>>
titleVars == <<titleVariant, titleResult, titlePc>>
instVars == <<saveDir, zipfile, installed_mods, is_installed, block, instPc>>
navVars == <<navEntries, navCategories, navLabels, navOrder, navShown, navPc>>
vars == <<fixVars, l10nVars, iconVars, loadVars, mainVars, htmlVars, treeVars, titleVars, instVars, navVars>>

\* Python's None where a text is expected: a sequence that is no text (its
\* element is not a character).
None == <<"None">>

(***************************************************************************)
(* Python str primitives on sequences of characters.                       *)
(***************************************************************************)
MatchAt(s, p, i) ==
    /\ i >= 1
    /\ i + Len(p) - 1 <= Len(s)
    /\ SubSeq(s, i, i + Len(p) - 1) = p

StartsWith(s, p) == MatchAt(s, p, 1)

EndsWith(s, p) == Len(p) <= Len(s) /\ MatchAt(s, p, Len(s) - Len(p) + 1)

RECURSIVE ReplaceFrom(_, _, _, _)
ReplaceFrom(s, old, new, i) ==
    LET hits == {j \in i..Len(s) : MatchAt(s, old, j)}
    IN  IF hits = {} THEN SubSeq(s, i, Len(s))
        ELSE LET j == CHOOSE h \in hits : \A r \in hits : h <= r
             IN  SubSeq(s, i, j - 1) \o new
                     \o ReplaceFrom(s, old, new, j + Len(old))

\* str.replace(old, new) for a non-empty old: every non-overlapping
\* occurrence, found left to right (the text up to the next occurrence is
\* copied, the occurrence replaced, and the search goes on after it).
\* str.replace(old, new, 1): the first occurrence only
ReplaceFirst(s, old, new) ==
    LET hits == {j \in 1..Len(s) : MatchAt(s, old, j)}
    IN  IF hits = {} THEN s
        ELSE LET j == CHOOSE h \in hits : \A r \in hits : h <= r
             IN  SubSeq(s, 1, j - 1) \o new \o SubSeq(s, j + Len(old), Len(s))

Replace(s, old, new) == ReplaceFrom(s, old, new, 1)

(***************************************************************************)
(* Mod._fix_xml: the literal replacements, in the order of the source.     *)
(***************************************************************************)
FixRules ==
  << << <<" ","&"," ">>,
        <<" ","a","n","d"," ">> >>,
     << <<"F","i","l","l","-","-","a","n","d">>,
        <<"F","i","l","l","-","a","n","d">> >>,
     << <<"p","a","r","t","O","f","E","c","o","n","o","m","y","=","\"","t","r","u","e","\"">>,
        <<"p","a","r","t","O","f","E","c","o","n","o","m","y","=","\"","t","r","u","e","\""," ">> >>,
     << <<"\"","c","o","n","f","i","g","F","i","l","e","n","a","m","e","=">>,
        <<"\""," ","c","o","n","f","i","g","F","i","l","e","n","a","m","e","=">> >>,
     << <<"\"","b","a","l","e","T","y","p","e","s","D","i","r","e","c","t","o","r","y","=">>,
        <<"\""," ","b","a","l","e","T","y","p","e","s","D","i","r","e","c","t","o","r","y","=">> >>,
     << <<"B","r","e","s","s","e","l","&","L","a","d","e">>,
        <<"B","r","e","s","s","e","l","+","L","a","d","e">> >>,
     << <<"a","n","d"," ","e","n","j","o","y",".","]","]",">","<","/","d","e",">">>,
        <<"a","n","d"," ","e","n","j","o","y",".","<","/","d","e",">">> >>,
     << <<"\"","e","n","d","T","r","a","n","s","L","i","m","i","t","=","\"">>,
        <<"\""," ","e","n","d","T","r","a","n","s","L","i","m","i","t","=","\"">> >>,
     << <<"\"","t","r","a","n","s","l","a","t","i","o","n","A","c","t","i","v","e","=","\"">>,
        <<"\""," ","t","r","a","n","s","l","a","t","i","o","n","A","c","t","i","v","e","=","\"">> >>,
     << <<"\"","s","c","a","l","e","A","c","t","i","v","e","=","\"">>,
        <<"\""," ","s","c","a","l","e","A","c","t","i","v","e","=","\"">> >>,
     << <<"\"","p","l","a","y","S","o","u","n","d","=","\"">>,
        <<"\""," ","p","l","a","y","S","o","u","n","d","=","\"">> >>,
     << <<"\"","r","o","t","a","t","i","o","n","A","c","t","i","v","e","=","\"">>,
        <<"\""," ","r","o","t","a","t","i","o","n","A","c","t","i","v","e","=","\"">> >>,
     << <<"\"","v","i","s","i","b","i","l","i","t","y","A","c","t","i","v","e","=","\"">>,
        <<"\""," ","v","i","s","i","b","i","l","i","t","y","A","c","t","i","v","e","=","\"">> >>,
     << <<"\"","i","n","d","e","x","=","\"">>,
        <<"\""," ","i","n","d","e","x","=","\"">> >>,
     << <<"<","f","u","n","c","t","i","o","n",">","h","t","t","p","s",":","/","/","w","w","w",".","f","a","c","e","b","o","o","k",".","c","o","m","/","E","T","A","-","L","a","-","M","a","r","c","h","o","i","s","e","-","3","1","8","3","7","1","2","1","5","0","1","3","3","4","4","/","?","r","e","f","=","t","s","&","f","r","e","f","=","t","s","<","/","f","u","n","c","t","i","o","n",">">>,
        <<>> >>,
     << <<"-","-"," ","a","a","n","i","m","a","z","i","o","n","i"," ","t","u","b","i"," ","-","-">>,
        <<" ","a","a","n","i","m","a","z","i","o","n","i"," ","t","u","b","i"," ">> >> >>

RECURSIVE ApplyRules(_, _)
ApplyRules(s, k) ==
    IF k > Len(FixRules) THEN s
    ELSE ApplyRules(Replace(s, FixRules[k][1], FixRules[k][2]), k + 1)

FixLiterals(s) == ApplyRules(s, 1)

(***************************************************************************)
(* The two re.sub calls of Mod._fix_xml.                                   *)
(***************************************************************************)
NL == "\n"
\* \s of a str pattern: the characters for which str.isspace() holds.  Those
\* below are space, \n, \t, \r, \f, \v, \x1c to \x1f, \x85, \xa0 and U+1680;
\* the others (U+2000 to U+200A, U+2028, U+2029, U+202F, U+205F, U+3000)
\* cannot be written in a string of a module and are in no text here.
IsSpace(c) ==
    c \in {" ", NL, "\t", "\r", "\f", "", "", "", "", "", "", " ", " "}
\* '^' under re.MULTILINE
LineStart(s, i) == i = 1 \/ s[i - 1] = NL
\* '$' under re.MULTILINE
LineEnd(s, i) == i = Len(s) + 1 \/ s[i] = NL

VTC_OPEN == <<"<","!","-","-","<","v","e","h","i","c","l","e","T","y","p","e","C","o","n","f","i","g","u","r","a","t","i","o","n","s",">">>
COMMENT_OPEN == <<"<","!","-","-">>
COMMENT_CLOSE == <<"-","-",">">>
EMPTY_COMMENT == <<"<","!","-","-"," ","-","-",">">>
NINE_NEWLINES == <<NL,NL,NL,NL,NL,NL,NL,NL,NL>>

\* The end (exclusive) of the greedy run of whitespace that starts at i.
RECURSIVE SpaceRunEnd(_, _)
SpaceRunEnd(s, i) ==
    IF i <= Len(s) /\ IsSpace(s[i]) THEN SpaceRunEnd(s, i + 1) ELSE i

\* '\s*$' from position i: the longest run of whitespace after which '$'
\* matches (the regex engine backtracks from the greedy match); 0 if none.
SpaceThenLineEnd(s, i) ==
    LET e == SpaceRunEnd(s, i)
        ends == {q \in i..e : LineEnd(s, q)}
    IN  IF ends = {} THEN 0 ELSE CHOOSE q \in ends : \A r \in ends : r <= q

\* '^<!--<vehicleTypeConfigurations>(.*?)^-->\s*$' (MULTILINE | DOTALL)
\* matched at position i: the end (exclusive) of the match, 0 if none.
VtcMatchEnd(s, i) ==
    IF ~(LineStart(s, i) /\ MatchAt(s, VTC_OPEN, i)) THEN 0
    ELSE LET closes == {k \in (i + Len(VTC_OPEN))..Len(s) :
                          /\ LineStart(s, k)
                          /\ MatchAt(s, COMMENT_CLOSE, k)
                          /\ SpaceThenLineEnd(s, k + 3) # 0}
         IN  IF closes = {} THEN 0
             ELSE SpaceThenLineEnd(s,
                      (CHOOSE k \in closes : \A r \in closes : k <= r) + 3)

RECURSIVE SubVtcFrom(_, _)
SubVtcFrom(s, i) ==
    LET hits == {j \in i..Len(s) : VtcMatchEnd(s, j) # 0}
    IN  IF hits = {} THEN SubSeq(s, i, Len(s))
        ELSE LET j == CHOOSE h \in hits : \A r \in hits : h <= r
             IN  SubSeq(s, i, j - 1) \o NINE_NEWLINES
                     \o SubVtcFrom(s, VtcMatchEnd(s, j))

SubVtc(s) == SubVtcFrom(s, 1)

\* '<!--(.*?)-->' matched at position i ('.' does not match a newline):
\* the end (exclusive) of the match, 0 if none.
CommentMatchEnd(s, i) ==
    IF ~MatchAt(s, COMMENT_OPEN, i) THEN 0
    ELSE LET closes == {k \in (i + 4)..Len(s) :
                          /\ MatchAt(s, COMMENT_CLOSE, k)
                          /\ \A j \in (i + 4)..(k - 1) : s[j] # NL}
         IN  IF closes = {} THEN 0
             ELSE (CHOOSE k \in closes : \A r \in closes : k <= r) + 3

RECURSIVE SubCommentFrom(_, _)
SubCommentFrom(s, i) ==
    LET hits == {j \in i..Len(s) : CommentMatchEnd(s, j) # 0}
    IN  IF hits = {} THEN SubSeq(s, i, Len(s))
        ELSE LET j == CHOOSE h \in hits : \A r \in hits : h <= r
             IN  SubSeq(s, i, j - 1) \o EMPTY_COMMENT
                     \o SubCommentFrom(s, CommentMatchEnd(s, j))

SubComment(s) == SubCommentFrom(s, 1)

\* Mod._fix_xml
FixXml(s) == SubComment(SubVtc(FixLiterals(s)))

(***************************************************************************)
(* Documents.  An element is [present, text, kids]: text is its .text      *)
(* (None when the element has none), kids its en/de/fr children in         *)
(* document order, each [tag, text].  An absent element (find() returned   *)
(* None) has present = FALSE.                                              *)
(*                                                                         *)
(* A descriptor (modDesc) is seen through what Mod._l10n reads:            *)
(*   hasL10n     the descriptor has an <l10n> element                      *)
(*   prefix      that element has a filenamePrefix attribute               *)
(*   texts       its <text name=...> children, each [name, el]             *)
(*   auxPresent  the archive holds <filenamePrefix>_en.xml                 *)
(*   aux         that file's <texts><text name= text=>, each [name, text]  *)
(***************************************************************************)
Lang == {"en", "de", "fr"}

Absent == [present |-> FALSE, text |-> None, kids |-> <<>>]
Elem(t, k) == [present |-> TRUE, text |-> t, kids |-> k]
Kid(g, t) == [tag |-> g, text |-> t]

\* Element.find('./<tag>'): the first child with that tag, Absent if none.
Find(el, g) ==
    LET hits == {i \in 1..Len(el.kids) : el.kids[i].tag = g}
    IN  IF hits = {} THEN Absent
        ELSE LET i == CHOOSE i \in hits : \A j \in hits : i <= j
             IN  Elem(el.kids[i].text, <<>>)

\* The result of a call: the value returned or the exception raised, and
\* the keys for which the auxiliary file was read from the archive
\* (self.ZipFile.read, fs17.py 275), in the order of the reads.
Ok(v, reads) == [exc |-> "none", val |-> v, auxReads |-> reads]
Raise(e, reads) == [exc |-> e, val |-> <<>>, auxReads |-> reads]

L10N_PREFIX == <<"$","l","1","0","n","_">>

\* LangChild with the first language child in document order taken,
\* whatever its language.
LangChildDocOrder(n) ==
    IF ~n.present \/ n.kids = <<>> THEN Absent
    ELSE Elem(n.kids[1].text, <<>>)

\* fs17.py 246-252: the language child l10n reads, en before de before fr.
LangChild(n) ==
    IF ~n.present THEN Absent
    ELSE IF Find(n, "en").present THEN Find(n, "en")
    ELSE IF Find(n, "de").present THEN Find(n, "de")
    ELSE Find(n, "fr")

\* fs17.py 253-257: the text l10n goes on with ('' for an absent node).
CandidateText(n) ==
    IF LangChild(n).present THEN LangChild(n).text
    ELSE IF n.present THEN n.text
    ELSE <<>>

\* fs17.py 264
ToFind(text) == Replace(text, L10N_PREFIX, <<>>)

\* The first element of a sequence of [name, ...] records with that name
\* (0 if none): the for loops of fs17.py 266-268 and 278-280.
FirstNamed(seq, name) ==
    LET hits == {i \in 1..Len(seq) : seq[i].name = name}
    IN  IF hits = {} THEN 0 ELSE CHOOSE i \in hits : \A j \in hits : i <= j

\* Mod.l10n (L10nFrom) and Mod._l10n (L10nKey).  depth counts the Python
\* frames left before the interpreter raises RecursionError; reads is the
\* auxiliary reads made so far.
RECURSIVE L10nFrom(_, _, _, _)
RECURSIVE L10nKey(_, _, _, _)
L10nFrom(doc, n, depth, reads) ==
    IF depth = 0 THEN Raise("RecursionError", reads)
    ELSE LET result == CandidateText(n)
         IN  IF result = None THEN Raise("AttributeError", reads)
             ELSE IF StartsWith(result, L10N_PREFIX)
                  THEN L10nKey(doc, result, depth - 1, reads)
                  ELSE Ok(result, reads)

L10nKey(doc, text, depth, reads) ==
    IF depth = 0 THEN Raise("RecursionError", reads)
    ELSE LET to_find == ToFind(text)
             i == IF doc.hasL10n THEN FirstNamed(doc.texts, to_find) ELSE 0
         IN  IF i # 0 THEN L10nFrom(doc, doc.texts[i].el, depth - 1, reads)
             ELSE IF doc.hasL10n /\ doc.prefix
                  THEN IF ~doc.auxPresent
                       THEN Raise("KeyError", Append(reads, to_find))
                       ELSE LET j == FirstNamed(doc.aux, to_find)
                            IN  IF j # 0
                                THEN Ok(doc.aux[j].text, Append(reads, to_find))
                                ELSE Ok(text, Append(reads, to_find))
                  ELSE Ok(text, reads)

\* The recursion limit of the interpreter, in frames of l10n and _l10n.
RecursionLimit == 8

\* Mod.l10n called by the program
L10n(doc, n) == L10nFrom(doc, n, RecursionLimit, <<>>)

(***************************************************************************)
(* Mod._fix_xml as a state machine: a descriptor text built from the       *)
(* catalogued corruption patterns is repaired, and the repaired text is    *)
(* repaired again.                                                         *)
(***************************************************************************)
FRAG_AMP == <<" ","&"," ">>
FRAG_AMP_TAIL == <<"&"," ">>
FRAG_ECONOMY == <<"p","a","r","t","O","f","E","c","o","n","o","m","y","=","\"","t","r","u","e","\"">>
FRAG_CONFIG == <<"\"","c","o","n","f","i","g","F","i","l","e","n","a","m","e","=">>
FRAG_INDEX == <<"\"","i","n","d","e","x","=","\"">>
FRAG_COMMENT == <<"<","!","-","-","c","-","-",">">>
FRAG_PLAIN == <<"x">>
FRAG_FILL == <<"F","i","l","l","-","-","a","n","d">>
FRAG_VTC == <<"<","!","-","-","<","v","e","h","i","c","l","e","T","y","p","e","C","o","n","f","i","g","u","r","a","t","i","o","n","s",">","\n","v","\n","-","-",">","\n">>
FRAG_OPEN_COMMENT == <<"<","!","-","-","a","\n">>
FRAG_FORM_FEED == <<"\f">>

FixFragments ==
    {FRAG_AMP, FRAG_AMP_TAIL, FRAG_ECONOMY, FRAG_CONFIG,
     FRAG_INDEX, FRAG_COMMENT, FRAG_PLAIN, FRAG_FILL,
     FRAG_VTC, FRAG_OPEN_COMMENT, FRAG_FORM_FEED}

\* The number of fragments a descriptor text is built from, at most.
MaxFragments == 2

RECURSIVE Concat(_)
Concat(ss) == IF ss = <<>> THEN <<>> ELSE Head(ss) \o Concat(Tail(ss))

FixInputs ==
    {Concat(ss) : ss \in UNION {[1..n -> FixFragments] : n \in 0..MaxFragments}}

\* xml = Mod._fix_xml(xml), fs17.py 66 and 115
Repair ==
    /\ fixPc = "raw"
    /\ fixed' = FixXml(xml)
    /\ fixPc' = "fixed"
    /\ UNCHANGED <<xml, fixedTwice, l10nVars, iconVars, loadVars, mainVars, htmlVars, treeVars, titleVars, instVars, navVars>>

\* Mod._fix_xml applied to its own result
RepairAgain ==
    /\ fixPc = "fixed"
    /\ fixedTwice' = FixXml(fixed)
    /\ fixPc' = "twice"
    /\ UNCHANGED <<xml, fixed, l10nVars, iconVars, loadVars, mainVars, htmlVars, treeVars, titleVars, instVars, navVars>>

(***************************************************************************)
(* Mod.l10n as a state machine: one call on a node of a descriptor.        *)
(***************************************************************************)
TEXT_E == <<"E">>
TEXT_D == <<"D">>
TEXT_F == <<"F">>
TEXT_T == <<"T">>
TEXT_X == <<"X">>
TEXT_Y == <<"Y">>
TEXT_Z == <<"Z">>
NAME_A == <<"a">>
NAME_B == <<"b">>
NAME_AB == <<"a","b">>
KEY_A == L10N_PREFIX \o NAME_A
KEY_B == L10N_PREFIX \o NAME_B
\* a text that holds the prefix twice
KEY_A_KEY_B == KEY_A \o KEY_B

PlainText(g) == IF g = "en" THEN TEXT_E ELSE IF g = "de" THEN TEXT_D ELSE TEXT_F

\* The en/de/fr children of a node: any of them, in any document order,
\* each with no text, a plain text or an indirect key.
Kids == UNION {{Kid(g, x) : x \in {None, PlainText(g), KEY_A}} : g \in Lang}
KidLists ==
    {k \in UNION {[1..n -> Kids] : n \in 0..Cardinality(Lang)} :
        \A i, j \in 1..Len(k) : i # j => k[i].tag # k[j].tag}

RichNodes ==
    {Absent} \cup {Elem(x, k) : x \in {None, TEXT_T, KEY_A}, k \in KidLists}

KeyNodes ==
    {Elem(x, <<>>) : x \in {KEY_A, KEY_B, KEY_A_KEY_B}}
    \cup {Elem(None, <<Kid("en", KEY_A)>>)}

NoL10nDoc(auxThere, auxTexts) ==
    [hasL10n |-> FALSE, prefix |-> FALSE, texts |-> <<>>,
     auxPresent |-> auxThere, aux |-> auxTexts]
L10nDoc(pre, entries, auxThere, auxTexts) ==
    [hasL10n |-> TRUE, prefix |-> pre, texts |-> entries,
     auxPresent |-> auxThere, aux |-> auxTexts]
Entry(n, e) == [name |-> n, el |-> e]
AuxText(n, x) == [name |-> n, text |-> x]

\* The number of <text> entries of the inline l10n table, at most.
MaxEntries == 2

EntryEls ==
    {Elem(TEXT_X, <<>>), Elem(None, <<>>), Elem(None, <<Kid("en", TEXT_Y)>>),
     Elem(None, <<Kid("en", KEY_A)>>), Elem(None, <<Kid("en", KEY_B)>>)}
Entries == {Entry(n, e) : n \in {NAME_A, NAME_B, NAME_AB}, e \in EntryEls}
Tables == UNION {[1..n -> Entries] : n \in 0..MaxEntries}
AuxFiles ==
    {<<>>, <<AuxText(NAME_A, TEXT_Z)>>,
     <<AuxText(NAME_B, KEY_A), AuxText(NAME_B, TEXT_Z)>>}

SimpleDocs ==
    {NoL10nDoc(FALSE, <<>>),
     L10nDoc(FALSE, <<Entry(NAME_A, Elem(TEXT_X, <<>>))>>, FALSE, <<>>),
     L10nDoc(TRUE, <<>>, TRUE, <<AuxText(NAME_A, TEXT_Z)>>)}

RichDocs ==
    {NoL10nDoc(FALSE, <<>>)}
    \cup {L10nDoc(pre, tb, FALSE, <<>>) : pre \in BOOLEAN, tb \in Tables}
    \cup {L10nDoc(pre, tb, TRUE, ax) : pre \in BOOLEAN, tb \in Tables, ax \in AuxFiles}

Pending == [exc |-> "pending", val |-> <<>>, auxReads |-> <<>>]

\* self.l10n(node), as in fs17.py 239, 290, 292, 296
Resolve ==
    /\ l10nPc = "call"
    /\ l10nResult' = L10n(modDesc, node)
    /\ l10nPc' = "done"
    /\ UNCHANGED <<modDesc, node, fixVars, iconVars, loadVars, mainVars, htmlVars, treeVars, titleVars, instVars, navVars>>

(***************************************************************************)
(* The icon lookup.  The archive is seen through what zip.read does for a  *)
(* name: "there" (the bytes are returned), "missing" (KeyError) or         *)
(* "broken" (any other exception: a bad CRC, an encrypted member, ...);    *)
(* the filesystem through the set of paths for which os.path.exists holds. *)
(* attempts records every lookup made, in order: [src, name, res] with     *)
(* src "zip" (zip.read), "fs" (os.path.exists and open, in get_icon) or    *)
(* "exists" (os.path.exists in find_icon) and res "ok", "notfound" or      *)
(* "error".                                                                *)
(***************************************************************************)
GAME_DIR == <<"D",":","\\","s","t","e","a","m","\\","s","t","e","a","m","a","p","p","s","\\","c","o","m","m","o","n","\\","F","a","r","m","i","n","g"," ","S","i","m","u","l","a","t","o","r"," ","1","7">>
STORE_TOKEN == <<"$","d","a","t","a","/","s","t","o","r","e","/">>
\* os.path.join(GAME_DIR, 'data', 'store') + '/'
DATA_STORE_SLASH == GAME_DIR \o <<"/","d","a","t","a","/","s","t","o","r","e","/">>
EXT_PNG == <<".","p","n","g">>
EXT_DDS == <<".","d","d","s">>

ICON_PNG == <<"i">> \o EXT_PNG
ICON_DDS == <<"i">> \o EXT_DDS
ICON_JPG == <<"i",".","j","p","g">>
ICON_PNG_PNG == <<"i">> \o EXT_PNG \o EXT_PNG
STORE_PNG == STORE_TOKEN \o <<"s">> \o EXT_PNG
GAME_STORE_PNG == DATA_STORE_SLASH \o <<"s">> \o EXT_PNG
GAME_STORE_DDS == DATA_STORE_SLASH \o <<"s">> \o EXT_DDS

ZipNames == {ICON_PNG, ICON_DDS, ICON_JPG}
FsNames == {ICON_PNG, ICON_DDS, GAME_STORE_PNG, GAME_STORE_DDS}
DeclaredNames == {ICON_PNG, ICON_DDS, ICON_JPG, STORE_PNG, ICON_PNG_PNG}

\* zip.read(name)
ZipRead(zs, name) == IF name \in DOMAIN zs THEN zs[name] ELSE "missing"

Attempt(s, n, r) == [src |-> s, name |-> n, res |-> r]

\* One call of get_icon (fs17.py 206-219, FS17_Mod_List.py 260-270): the
\* lookups it makes.  It returns the icon if the last one is "ok" and
\* raises KeyError otherwise.
GetIcon(zs, fs, name) ==
    IF ZipRead(zs, name) = "there" THEN <<Attempt("zip", name, "ok")>>
    ELSE << Attempt("zip", name,
                    IF ZipRead(zs, name) = "missing" THEN "notfound" ELSE "error"),
            Attempt("fs", name, IF name \in fs THEN "ok" ELSE "notfound") >>

Found(as) == as # <<>> /\ as[Len(as)].res = "ok"

\* fs17.py 181-183 and FS17_Mod_List.py 233-237: the name the loop starts with
EnterIconLoop ==
    /\ iconPc = "start"
    /\ icon_file' = IF iconVariant = "Mod"
                    THEN Replace(declared, STORE_TOKEN, DATA_STORE_SLASH)
                    ELSE declared
    /\ iconPc' = "loop"
    /\ UNCHANGED <<iconVariant, zipStatus, fsFiles, declared, attempts>>
    /\ UNCHANGED <<fixVars, l10nVars, loadVars, mainVars, htmlVars, treeVars, titleVars, instVars, navVars>>

\* One round of the while loop of Mod._find_icon (fs17.py 185-200)
TryIconMod ==
    /\ iconPc = "loop"
    /\ iconVariant = "Mod"
    /\ LET as == GetIcon(zipStatus, fsFiles, icon_file)
       IN  /\ attempts' = attempts \o as
           /\ IF Found(as)
              THEN iconPc' = "found" /\ icon_file' = icon_file
              ELSE IF EndsWith(icon_file, EXT_PNG)
                   THEN /\ icon_file' = Replace(icon_file, EXT_PNG, EXT_DDS)
                        /\ iconPc' = "loop"
                   ELSE iconPc' = "notfound" /\ icon_file' = icon_file
    /\ UNCHANGED <<iconVariant, zipStatus, fsFiles, declared>>
    /\ UNCHANGED <<fixVars, l10nVars, loadVars, mainVars, htmlVars, treeVars, titleVars, instVars, navVars>>

\* One round of the while loop of find_icon (FS17_Mod_List.py 239-254)
TryIconScript ==
    /\ iconPc = "loop"
    /\ iconVariant = "script"
    /\ LET as == GetIcon(zipStatus, fsFiles, icon_file)
           rewritten == Replace(icon_file, STORE_TOKEN, DATA_STORE_SLASH)
       IN  IF Found(as)
           THEN /\ attempts' = attempts \o as
                /\ iconPc' = "found"
                /\ icon_file' = icon_file
           ELSE IF EndsWith(icon_file, EXT_PNG)
                THEN /\ attempts' = attempts \o as
                     /\ icon_file' = Replace(icon_file, EXT_PNG, EXT_DDS)
                     /\ iconPc' = "loop"
                ELSE /\ icon_file' = rewritten
                     /\ IF rewritten \in fsFiles
                        THEN /\ attempts' = attempts \o as
                                    \o <<Attempt("exists", rewritten, "ok")>>
                             /\ iconPc' = "loop"
                        ELSE /\ attempts' = attempts \o as
                                    \o <<Attempt("exists", rewritten, "notfound")>>
                             /\ iconPc' = "exit"
    /\ UNCHANGED <<iconVariant, zipStatus, fsFiles, declared>>
    /\ UNCHANGED <<fixVars, l10nVars, loadVars, mainVars, htmlVars, treeVars, titleVars, instVars, navVars>>

(***************************************************************************)
(* The store items of Mod.load.  A <storeItem> element of the descriptor   *)
(* is [hasXmlFilename, file]; the file it names is seen through what the   *)
(* loop does with it: read ("ok" or "missing"), decodes, parses, and the   *)
(* elements Item.__init__ looks up in it.                                  *)
(***************************************************************************)
TEXT_5 == <<"5">>
TEXT_0 == <<"0">>

StoreFile(r, d, p, c, b, n, pr, up) ==
    [read |-> r, decodes |-> d, parses |-> p, category |-> c, brand |-> b,
     name |-> n, price |-> pr, dailyUpkeep |-> up]
StoreItemEl(h, f) == [hasXmlFilename |-> h, file |-> f]

\* Item.__init__ (fs17.py 288-309): the Item built, or the exception that
\* leaves the constructor.
ItemFields(c, b, n, p, u) ==
    [category |-> c, brand |-> b, name |-> n, price |-> p, dailyUpkeep |-> u]
NoItem == ItemFields(<<>>, <<>>, <<>>, <<>>, <<>>)

BuildItem(doc, f) ==
    LET category == L10n(doc, f.category)
        brand == L10n(doc, f.brand)
        name == L10n(doc, f.name)
    IN  IF category.exc # "none" THEN [exc |-> category.exc, item |-> NoItem]
        ELSE IF brand.exc \notin {"none", "AttributeError"}
             THEN [exc |-> brand.exc, item |-> NoItem]
        ELSE IF name.exc # "none" THEN [exc |-> name.exc, item |-> NoItem]
        ELSE [exc |-> "none",
              item |-> ItemFields(
                  category.val,
                  IF brand.exc = "AttributeError" THEN <<>> ELSE brand.val,
                  name.val,
                  IF f.price.present THEN f.price.text ELSE TEXT_0,
                  IF f.dailyUpkeep.present THEN f.dailyUpkeep.text ELSE TEXT_0)]

\* fs17.py 99-101: the list comprehension over the <storeItem> elements
CollectStoreItems ==
    /\ loadPc = "collect"
    /\ IF \E i \in 1..Len(storeItemEls) : ~storeItemEls[i].hasXmlFilename
       THEN /\ loadExc' = "KeyError"
            /\ loadPc' = "failed"
            /\ store_item_xmls' = store_item_xmls
       ELSE /\ store_item_xmls' = [i \in 1..Len(storeItemEls) |-> storeItemEls[i].file]
            /\ loadPc' = "items"
            /\ loadExc' = loadExc
    /\ UNCHANGED <<storeItemEls, store_items, itemIdx, modDesc>>
    /\ UNCHANGED <<node, l10nResult, l10nPc, fixVars, iconVars, mainVars, htmlVars, treeVars, titleVars, instVars, navVars>>

\* fs17.py 102-121: one round of the loop over store_item_xmls
HandleStoreItem ==
    /\ loadPc = "items"
    /\ itemIdx < Len(store_item_xmls)
    /\ LET f == store_item_xmls[itemIdx + 1]
           built == BuildItem(modDesc, f)
       IN  IF f.read # "ok" \/ ~f.decodes \/ ~f.parses
           THEN /\ itemIdx' = itemIdx + 1
                /\ UNCHANGED <<store_items, loadExc, loadPc>>
           ELSE IF built.exc = "none"
                THEN /\ store_items' = Append(store_items, built.item)
                     /\ itemIdx' = itemIdx + 1
                     /\ UNCHANGED <<loadExc, loadPc>>
                ELSE /\ loadExc' = built.exc
                     /\ loadPc' = "failed"
                     /\ UNCHANGED <<store_items, itemIdx>>
    /\ UNCHANGED <<storeItemEls, store_item_xmls, modDesc>>
    /\ UNCHANGED <<node, l10nResult, l10nPc, fixVars, iconVars, mainVars, htmlVars, treeVars, titleVars, instVars, navVars>>

\* fs17.py 123: the loop is over and load returns
FinishLoad ==
    /\ loadPc = "items"
    /\ itemIdx = Len(store_item_xmls)
    /\ loadPc' = "done"
    /\ UNCHANGED <<storeItemEls, store_item_xmls, store_items, itemIdx, loadExc, modDesc>>
    /\ UNCHANGED <<node, l10nResult, l10nPc, fixVars, iconVars, mainVars, htmlVars, treeVars, titleVars, instVars, navVars>>

\* The number of <storeItem> elements of a descriptor, at most.
MaxStoreItems == 2

CategoryNodes == {Absent, Elem(TEXT_T, <<>>), Elem(None, <<>>)}
BrandNodes == {Absent, Elem(TEXT_T, <<>>), Elem(None, <<>>), Elem(KEY_A, <<>>)}
NameNodes == {Elem(TEXT_T, <<>>), Elem(KEY_A, <<>>)}
PriceNodes == {<<Absent, Elem(TEXT_5, <<>>)>>, <<Elem(TEXT_5, <<>>), Absent>>}

StoreFiles ==
    {StoreFile("missing", TRUE, TRUE, Absent, Absent, Absent, Absent, Absent),
     StoreFile("ok", FALSE, TRUE, Absent, Absent, Absent, Absent, Absent),
     StoreFile("ok", TRUE, FALSE, Absent, Absent, Absent, Absent, Absent)}
    \cup {StoreFile("ok", TRUE, TRUE, c, b, n, p[1], p[2]) :
            c \in CategoryNodes, b \in BrandNodes, n \in NameNodes, p \in PriceNodes}

StoreItemEls == {StoreItemEl(h, f) : h \in BOOLEAN, f \in StoreFiles}

LoadDocs ==
    {NoL10nDoc(FALSE, <<>>),
     L10nDoc(TRUE, <<>>, FALSE, <<>>),
     L10nDoc(FALSE, <<Entry(NAME_A, Elem(TEXT_X, <<>>))>>, FALSE, <<>>)}

(***************************************************************************)
(* main.  The scanned directory is [listing, files]: listing says whether  *)
(* os.walk yields anything for it (it does not for a directory that does   *)
(* not exist), files are the files of its top level, each [isZip, ...]     *)
(* with what main reads of the file: archive, whether ZipFile opens it;    *)
(* desc, the modDesc.xml of the archive ("ok", "missing", "undecodable"    *)
(* bytes, or "malformed" after the repairs); icon, what find_icon meets    *)
(* ("found", "notfound", "undeclared": no <iconFilename>, "notext": an     *)
(* <iconFilename> without text); author, version and description, each     *)
(* "text", "empty" (the element has no text) or "absent"; and maps,        *)
(* whether the descriptor has a <maps> element.                            *)
(***************************************************************************)
File(z, ar, d, i, a, v, ds, m) ==
    [isZip |-> z, archive |-> ar, desc |-> d, icon |-> i, author |-> a,
     version |-> v, description |-> ds, maps |-> m]

\* get_zipfiles (FS17_Mod_List.py 281-284): a for loop that returns in its
\* first round, and so returns None when os.walk yields nothing.
GetZipfiles(dir) ==
    IF ~dir.listing THEN [isNone |-> TRUE, files |-> <<>>]
    ELSE [isNone |-> FALSE, files |-> SelectSeq(dir.files, LAMBDA f : f.isZip)]

\* The body of the for loop of main for one archive (FS17_Mod_List.py
\* 90-184): "ok", or the way the run ends in it, in the order of the
\* statements: ZipFile (91), zip.read and decode (94), ET.fromstring (111),
\* find_icon (123), author and version (126-127), description (130-134),
\* 'Version: ' + version (173), 'Author: ' + author (174).
ArchiveOutcome(f) ==
    IF ~f.archive THEN "BadZipFile"
    ELSE IF f.desc = "missing" THEN "KeyError"
    ELSE IF f.desc = "undecodable" THEN "UnicodeDecodeError"
    ELSE IF f.desc = "malformed" THEN "ParseError"
    ELSE IF f.icon = "undeclared" THEN "AttributeError"
    ELSE IF f.icon = "notext" THEN "TypeError"
    ELSE IF f.icon = "notfound" THEN "sys.exit"
    ELSE IF f.author = "absent" \/ f.version = "absent" THEN "AttributeError"
    ELSE IF f.description # "text" THEN "AttributeError"
    ELSE IF f.version = "empty" \/ f.author = "empty" THEN "TypeError"
    ELSE "ok"

EXIT_MINUS_1 == 255
EXIT_UNCAUGHT == 1

\* The lines main writes to stdout, each as the pieces print is given; the
\* paths (MOD_VAULT, out_file, the icon name) are left out, an archive is
\* named by its place in the list.
MSG_NO_MODS == <<"***ERROR: No Mods (ZIP files) found in:">>
MsgReading(num_mods) == <<"Reading information for", num_mods, "mods...">>
MsgUnknownIcon(n) == <<"Unkown Icon file:", " in ", n>>
MSG_WRITING == <<"Writing HTML file:">>

\* Scan without the check of lines 61-63: an empty list goes on to the loop.
ScanUnchecked ==
    /\ mainPc = "start"
    /\ list_of_zipfiles' = GetZipfiles(vault)
    /\ IF list_of_zipfiles'.isNone
       THEN /\ uncaught' = "TypeError"
            /\ exitStatus' = EXIT_UNCAUGHT
            /\ mainPc' = "crashed"
            /\ printed' = printed
       ELSE /\ printed' = Append(printed, MsgReading(Len(list_of_zipfiles'.files)))
            /\ mainPc' = "loop"
            /\ UNCHANGED <<exitStatus, uncaught>>
    /\ UNCHANGED <<vault, idx, other_mods, map_mods, saved>>
    /\ UNCHANGED <<fixVars, l10nVars, iconVars, loadVars, htmlVars, treeVars, titleVars, instVars, navVars>>

\* FS17_Mod_List.py 53-82: the scan (60), the check of its result (61-63:
\* len(None) raises TypeError, an empty list prints the error and exits),
\* the head of the document, the line printed before the loop (82)
Scan ==
    /\ mainPc = "start"
    /\ list_of_zipfiles' = GetZipfiles(vault)
    /\ IF list_of_zipfiles'.isNone
       THEN /\ uncaught' = "TypeError"
            /\ exitStatus' = EXIT_UNCAUGHT
            /\ mainPc' = "crashed"
            /\ printed' = printed
       ELSE IF Len(list_of_zipfiles'.files) <= 0
            THEN /\ printed' = Append(printed, MSG_NO_MODS)
                 /\ exitStatus' = EXIT_MINUS_1
                 /\ mainPc' = "exited"
                 /\ uncaught' = uncaught
            ELSE /\ printed' = Append(printed, MsgReading(Len(list_of_zipfiles'.files)))
                 /\ mainPc' = "loop"
                 /\ UNCHANGED <<exitStatus, uncaught>>
    /\ UNCHANGED <<vault, idx, other_mods, map_mods, saved>>
    /\ UNCHANGED <<fixVars, l10nVars, iconVars, loadVars, htmlVars, treeVars, titleVars, instVars, navVars>>

\* FS17_Mod_List.py 83-184: one round of the for loop
ProcessArchive ==
    /\ mainPc = "loop"
    /\ idx < Len(list_of_zipfiles.files)
    /\ LET f == list_of_zipfiles.files[idx + 1]
           out == ArchiveOutcome(f)
       IN  IF out = "ok"
           THEN /\ idx' = idx + 1
                /\ IF f.maps
                   THEN map_mods' = Append(map_mods, idx + 1) /\ other_mods' = other_mods
                   ELSE other_mods' = Append(other_mods, idx + 1) /\ map_mods' = map_mods
                /\ UNCHANGED <<printed, exitStatus, uncaught, mainPc>>
           ELSE IF out = "sys.exit"
                THEN /\ printed' = Append(printed, MsgUnknownIcon(idx + 1))
                     /\ exitStatus' = EXIT_MINUS_1
                     /\ mainPc' = "exited"
                     /\ UNCHANGED <<idx, other_mods, map_mods, uncaught>>
                ELSE /\ uncaught' = out
                     /\ exitStatus' = EXIT_UNCAUGHT
                     /\ mainPc' = "crashed"
                     /\ UNCHANGED <<idx, other_mods, map_mods, printed>>
    /\ UNCHANGED <<vault, list_of_zipfiles, saved>>
    /\ UNCHANGED <<fixVars, l10nVars, iconVars, loadVars, htmlVars, treeVars, titleVars, instVars, navVars>>

\* WriteOutput with the save inside the body of the for loop: the document
\* is saved after each archive.
WriteOutputInLoop ==
    /\ mainPc = "loop"
    /\ idx >= 1
    /\ Len(saved) < idx
    /\ printed' = Append(printed, MSG_WRITING)
    /\ saved' = Append(saved, other_mods \o map_mods)
    /\ mainPc' = IF idx = Len(list_of_zipfiles.files) THEN "done" ELSE "loop"
    /\ UNCHANGED <<vault, list_of_zipfiles, idx, other_mods, map_mods,
                   exitStatus, uncaught>>
    /\ UNCHANGED <<fixVars, l10nVars, iconVars, loadVars, htmlVars, treeVars, titleVars, instVars, navVars>>

\* FS17_Mod_List.py 187-200: the loop is over; the blocks of the other
\* mods, then those of the maps, are added to the body, the line of 199 is
\* printed and the document is saved
WriteOutput ==
    /\ mainPc = "loop"
    /\ idx = Len(list_of_zipfiles.files)
    /\ printed' = Append(printed, MSG_WRITING)
    /\ saved' = Append(saved, other_mods \o map_mods)
    /\ mainPc' = "done"
    /\ UNCHANGED <<vault, list_of_zipfiles, idx, other_mods, map_mods,
                   exitStatus, uncaught>>
    /\ UNCHANGED <<fixVars, l10nVars, iconVars, loadVars, htmlVars, treeVars, titleVars, instVars, navVars>>

\* The number of files in the scanned directory, at most.
MaxFiles == 2

\* An archive that main can read whole.
GoodFile(m) == File(TRUE, TRUE, "ok", "found", "text", "text", "text", m)

WellFormed(f) ==
    /\ f.archive
    /\ f.desc = "ok"
    /\ f.icon = "found"
    /\ f.author = "text"
    /\ f.version = "text"
    /\ f.description = "text"

\* The files of the model: one that is no .zip, the two good archives, the
\* archives with one thing wrong, and archives with two things wrong, for
\* the order in which main meets them.
Files ==
    LET g == GoodFile(FALSE)
    IN  {[g EXCEPT !.isZip = FALSE], g, GoodFile(TRUE)}
        \cup {[g EXCEPT !.archive = FALSE]}
        \cup {[g EXCEPT !.desc = d] : d \in {"missing", "undecodable", "malformed"}}
        \cup {[g EXCEPT !.icon = i] : i \in {"undeclared", "notext", "notfound"}}
        \cup {[g EXCEPT !.author = a] : a \in {"absent", "empty"}}
        \cup {[g EXCEPT !.version = v] : v \in {"absent", "empty"}}
        \cup {[g EXCEPT !.description = d] : d \in {"absent", "empty"}}
        \cup {[g EXCEPT !.desc = "malformed", !.icon = "notfound"],
              [g EXCEPT !.icon = "notfound", !.author = "absent"],
              [g EXCEPT !.icon = "notext", !.description = "absent"],
              [g EXCEPT !.author = "empty", !.version = "absent"],
              [g EXCEPT !.author = "empty", !.description = "absent"],
              [g EXCEPT !.version = "empty", !.description = "empty"],
              [g EXCEPT !.author = "empty", !.version = "empty"]}

Vaults ==
    {[listing |-> FALSE, files |-> <<>>]}
    \cup {[listing |-> TRUE, files |-> fs] :
            fs \in UNION {[1..n -> Files] : n \in 0..MaxFiles}}

(***************************************************************************)
(* tiny_html.py: Tag and its serialization Tag.html (FS17_Mod_List.py has  *)
(* the same class, with html named to_str).  A tag is [name, attributes,   *)
(* text, children]; attributes is the dict as the sequence of its          *)
(* <<name, value>> items in insertion order, text is None or a text.       *)
(***************************************************************************)
INDENT == <<" ">>
LINEBR == <<NL>>

\* Tag.__init__
Tag(name, attributes, text) ==
    [name |-> name, attributes |-> attributes, text |-> text, children |-> <<>>]

\* Tag.add
TagAdd(t, child) == [t EXCEPT !.children = Append(@, child)]

\* The digits, and the characters U+0020 to U+005F and U+0061 to U+007E in
\* the order of their code points.
DIGITS == <<"0","1","2","3","4","5","6","7","8","9">>
ASCII_TO_UNDERSCORE == <<" ","!","\"","#","$","%","&","'","(",")","*","+",",","-",".","/","0","1","2","3","4","5","6","7","8","9",":",";","<","=",">","?","@","A","B","C","D","E","F","G","H","I","J","K","L","M","N","O","P","Q","R","S","T","U","V","W","X","Y","Z","[","\\","]","^","_">>
ASCII_FROM_A == <<"a","b","c","d","e","f","g","h","i","j","k","l","m","n","o","p","q","r","s","t","u","v","w","x","y","z","{","|","}","~">>

\* The code point of a character: ord(ch), for the characters up to U+007E
\* that a text here can hold.
Ord(ch) ==
    IF \E i \in 1..Len(ASCII_TO_UNDERSCORE) : ASCII_TO_UNDERSCORE[i] = ch
    THEN 31 + (CHOOSE i \in 1..Len(ASCII_TO_UNDERSCORE) : ASCII_TO_UNDERSCORE[i] = ch)
    ELSE IF \E i \in 1..Len(ASCII_FROM_A) : ASCII_FROM_A[i] = ch
    THEN 96 + (CHOOSE i \in 1..Len(ASCII_FROM_A) : ASCII_FROM_A[i] = ch)
    ELSE CASE ch = "\t" -> 9
           [] ch = "\n" -> 10
           [] ch = "\f" -> 12
           [] ch = "\r" -> 13

\* a < b for two str values: the order sorted() uses.
StrLess(a, b) ==
    \E k \in 1..(Len(a) + 1) :
        /\ \A j \in 1..(k - 1) : j <= Len(b) /\ a[j] = b[j]
        /\ k <= Len(b)
        /\ (k > Len(a) \/ Ord(a[k]) < Ord(b[k]))

\* sorted(S) for a set of str values
RECURSIVE SortedStrs(_)
SortedStrs(S) ==
    IF S = {} THEN <<>>
    ELSE LET m == CHOOSE x \in S : \A y \in S \ {x} : StrLess(x, y)
         IN  <<m>> \o SortedStrs(S \ {m})

\* The keys of the dict, in insertion order.
AttrKeysInOrder(attributes) == [i \in 1..Len(attributes) |-> attributes[i][1]]

\* sorted(self.attributes): the keys of the dict, sorted.
AttrKeys(attributes) ==
    SortedStrs({attributes[i][1] : i \in 1..Len(attributes)})

\* self.attributes[n]
AttrValue(attributes, n) ==
    attributes[CHOOSE i \in 1..Len(attributes) : attributes[i][1] = n][2]

\* tiny_html.py 40-42: ' ' + n + '="' + self.attributes[n] + '"' for each key
RECURSIVE AttrsFrom(_, _, _)
AttrsFrom(attributes, keys, i) ==
    IF i > Len(keys) THEN <<>>
    ELSE <<" ">> \o keys[i] \o <<"=", "\"">> \o AttrValue(attributes, keys[i])
             \o <<"\"">> \o AttrsFrom(attributes, keys, i + 1)

AttrsHtml(attributes) == AttrsFrom(attributes, AttrKeys(attributes), 1)

\* IsMultiLine with the test for a newline in the text left out.
IsMultiLineChildrenOnly(t) == Len(t.children) > 0

\* tiny_html.py 48-54: multi_line
IsMultiLine(t) ==
    \/ Len(t.children) > 0
    \/ (t.text # None /\ \E i \in 1..Len(t.text) : t.text[i] = NL)

\* Tag.html (tiny_html.py 36-80; Tag.to_str, FS17_Mod_List.py 305-349)
RECURSIVE TagHtml(_, _)
RECURSIVE ChildrenHtml(_, _, _)
TagHtml(t, indent) ==
    LET open == indent \o <<"<">> \o t.name \o AttrsHtml(t.attributes)
        multi_line == IsMultiLine(t)
    IN  IF t.text # None \/ Len(t.children) > 0
        THEN open \o <<">">>
                 \o (IF multi_line THEN LINEBR ELSE <<>>)
                 \o (IF t.text # None
                     THEN (IF multi_line THEN indent \o INDENT ELSE <<>>)
                              \o t.text
                              \o (IF multi_line THEN LINEBR ELSE <<>>)
                     ELSE <<>>)
                 \o ChildrenHtml(t.children, indent \o INDENT, 1)
                 \o (IF multi_line THEN indent ELSE <<>>)
                 \o <<"<", "/">> \o t.name
                 \o <<">">> \o LINEBR
        ELSE open \o (IF t.name # <<"b", "r">> THEN <<"/">> ELSE <<>>)
                 \o <<">">> \o LINEBR

\* tiny_html.py 66-68: for child in self.children
ChildrenHtml(children, indent, i) ==
    IF i > Len(children) THEN <<>>
    ELSE TagHtml(children[i], indent) \o ChildrenHtml(children, indent, i + 1)

\* The trees that are serialized.
TAG_DIV == <<"d", "i", "v">>
TAG_BR == <<"b", "r">>
TAG_B == <<"b">>
ATTR_CLASS == <<"c", "l", "a", "s", "s">>
ATTR_ID == <<"i", "d">>
ATTR_ID_UPPER == <<"I", "d">>
VAL_A == <<"a">>
VAL_QUOTE == <<"x", "\"", "&", "<">>
TEXT_TWO_LINES == <<"a", NL, "b">>

TagNames == {TAG_DIV, TAG_BR, TAG_B}
AttrItems == {<<ATTR_CLASS, VAL_A>>, <<ATTR_ID, VAL_QUOTE>>, <<ATTR_ID_UPPER, <<>>>>}

\* The number of attributes of a tag, at most.
MaxAttrs == 2
\* The number of children of a tag, at most.
MaxChildren == 2

\* dicts: no key twice
AttrDicts ==
    {a \in UNION {[1..n -> AttrItems] : n \in 0..MaxAttrs} :
        \A i, j \in 1..Len(a) : i # j => a[i][1] # a[j][1]}

TagTexts == {None, <<>>, TEXT_T, TEXT_TWO_LINES}

ChildTags ==
    {Tag(n, <<>>, x) : n \in {TAG_BR, TAG_B}, x \in {None, TEXT_T}}
    \cup {Tag(TAG_DIV, <<<<ATTR_CLASS, VAL_A>>>>, TEXT_TWO_LINES),
          TagAdd(Tag(TAG_DIV, <<>>, None), Tag(TAG_BR, <<>>, None))}

ChildLists == UNION {[1..n -> ChildTags] : n \in 0..MaxChildren}

TagTrees ==
    {[name |-> n, attributes |-> a, text |-> x, children |-> k] :
        n \in TagNames, a \in AttrDicts, x \in TagTexts, k \in ChildLists}

\* html(indent) of a tree
Serialize ==
    /\ htmlPc = "call"
    /\ htmlOut' = TagHtml(tagTree, tagIndent)
    /\ htmlPc' = "done"
    /\ UNCHANGED <<tagTree, tagIndent>>
    /\ UNCHANGED <<fixVars, l10nVars, iconVars, loadVars, mainVars, treeVars, titleVars, instVars, navVars>>

(***************************************************************************)
(* Building trees: Tag(), Tag.tag and Tag.add.  Objects are numbered in    *)
(* the order of their creation; tagChildren[o] is o.children, a list of    *)
(* references to objects.                                                  *)
(***************************************************************************)
\* The number of Tag objects created, at most.
MaxTags == 3
\* The number of calls of Tag.add (those made by Tag.tag included), at most.
MaxAdds == 3

Adds == LET RECURSIVE Sum(_)
            Sum(o) == IF o = 0 THEN 0 ELSE Len(tagChildren[o]) + Sum(o - 1)
        IN  Sum(Len(tagChildren))

\* tiny_html.py 15-19: tag = Tag(...), an object with no children, in no list
NewTag ==
    /\ tagChildren # <<>>
    /\ Len(tagChildren) < MaxTags
    /\ tagChildren' = Append(tagChildren, <<>>)
    /\ UNCHANGED <<fixVars, l10nVars, iconVars, loadVars, mainVars, htmlVars, titleVars, instVars, navVars>>

\* tiny_html.py 29-32: parent.tag(...) creates an object and adds it
TagChild ==
    /\ Len(tagChildren) < MaxTags
    /\ Adds < MaxAdds
    /\ \E parent \in 1..Len(tagChildren) :
          tagChildren' = Append([tagChildren EXCEPT ![parent] = Append(@, Len(tagChildren) + 1)],
                                <<>>)
    /\ UNCHANGED <<fixVars, l10nVars, iconVars, loadVars, mainVars, htmlVars, titleVars, instVars, navVars>>

\* tiny_html.py 23-24: parent.add(tag), for any two objects
AddChild ==
    /\ Adds < MaxAdds
    /\ \E parent \in 1..Len(tagChildren), tag \in 1..Len(tagChildren) :
          tagChildren' = [tagChildren EXCEPT ![parent] = Append(@, tag)]
    /\ UNCHANGED <<fixVars, l10nVars, iconVars, loadVars, mainVars, htmlVars, titleVars, instVars, navVars>>

(***************************************************************************)
(* The title of a mod.                                                     *)
(***************************************************************************)
UNKNOWN == <<"U", "N", "K", "N", "O", "W", "N">>
NONE == <<"N", "O", "N", "E">>

\* fs17.py 238-242: Mod._get_mod_title, with title the <title> element
ModTitle(doc, title) ==
    LET r == L10n(doc, title)
    IN  IF r.exc # "none" THEN r
        ELSE IF r.val = <<>> THEN Ok(UNKNOWN, r.auxReads)
        ELSE r

\* FS17_Mod_List.py 206-219: get_mod_title, with title the <title> element
ScriptTitle(title) ==
    IF ~title.present THEN Ok(NONE, <<>>)
    ELSE IF LangChild(title).present THEN Ok(LangChild(title).text, <<>>)
    ELSE Ok(UNKNOWN, <<>>)

\* The descriptors whose title is taken: those of the l10n calls, and one
\* whose auxiliary document gives the empty text.
TitleDocs ==
    SimpleDocs \cup {L10nDoc(TRUE, <<>>, TRUE, <<AuxText(NAME_A, <<>>)>>)}

GetModTitle ==
    /\ titlePc = "call"
    /\ titleResult' = IF titleVariant = "Mod" THEN ModTitle(modDesc, node)
                      ELSE ScriptTitle(node)
    /\ titlePc' = "done"
    /\ UNCHANGED <<titleVariant, l10nVars, instVars, navVars>>
    /\ UNCHANGED <<fixVars, iconVars, loadVars, mainVars, htmlVars, treeVars, instVars, navVars>>

(***************************************************************************)
(* The installed marker.  The directory of the installed mods is [exists,  *)
(* listing, files]; a file of it is [name, isZip], isZip telling whether   *)
(* the name ends with '.zip'.                                              *)
(***************************************************************************)
EXT_ZIP == <<".", "z", "i", "p">>
CLASS_INST_DIV == <<"i", "n", "s", "t", "D", "i", "v">>
CLASS_FSGREEN == <<"f", "s", "g", "r", "e", "e", "n">>
TAG_TABLE == <<"t", "a", "b", "l", "e">>
TAG_TR == <<"t", "r">>
TAG_TD == <<"t", "d">>
TAG_SMALL == <<"s", "m", "a", "l", "l">>
TEXT_INSTALLED_TRUE == <<"I","n","s","t","a","l","l","e","d",":","T","r","u","e">>
TEXT_INSTALLED_FALSE == <<"I","n","s","t","a","l","l","e","d",":","F","a","l","s","e">>

DirEntry(n) == [name |-> n, isZip |-> EndsWith(n, EXT_ZIP)]

\* FS17_Mod_List.py 53-56: installed_mods
InstalledMods(dir) ==
    IF dir.exists THEN GetZipfiles(dir) ELSE [isNone |-> FALSE, files |-> <<>>]

\* The name with its capital letters made small.
LowerName(n) == [i \in 1..Len(n) |-> IF n[i] = "A" THEN "a" ELSE n[i]]

\* IsIn with the names compared without regard to case.
IsInIgnoringCase(name, mods) ==
    \E i \in 1..Len(mods.files) : LowerName(mods.files[i].name) = LowerName(name)

\* FS17_Mod_List.py 85: zipfile in installed_mods, for a list
IsIn(name, mods) == \E i \in 1..Len(mods.files) : mods.files[i].name = name

\* A tag with its children.
TagWith(t, kids) == [t EXCEPT !.children = kids]

\* FS17_Mod_List.py 144-175: the div of a mod, with the tags that depend on
\* is_installed and those that lead to them (the icon, the link, version,
\* author, multiplayer and description tags are left out).
ModBlock(installed) ==
    LET attr == IF installed THEN <<<<ATTR_CLASS, CLASS_INST_DIV>>>> ELSE <<>>
        attr2 == IF ~installed THEN <<<<ATTR_CLASS, CLASS_FSGREEN>>>> ELSE <<>>
        td2 == TagWith(Tag(TAG_TD, <<>>, None),
                   <<TagWith(Tag(TAG_DIV, attr2, None), <<Tag(TAG_B, <<>>, TEXT_T)>>),
                     TagWith(Tag(TAG_DIV, <<>>, None),
                         <<Tag(TAG_SMALL, <<>>,
                               IF installed THEN TEXT_INSTALLED_TRUE
                               ELSE TEXT_INSTALLED_FALSE)>>)>>)
        tr == TagWith(Tag(TAG_TR, <<>>, None), <<Tag(TAG_TD, <<>>, None), td2>>)
    IN  TagWith(Tag(TAG_DIV, attr, None),
            <<TagWith(Tag(TAG_TABLE, <<>>, None), <<tr>>)>>)

\* FS17_Mod_List.py 52-56
ListInstalled ==
    /\ instPc = "start"
    /\ installed_mods' = InstalledMods(saveDir)
    /\ instPc' = "loop"
    /\ UNCHANGED <<saveDir, zipfile, is_installed, block>>
    /\ UNCHANGED <<fixVars, l10nVars, iconVars, loadVars, mainVars, htmlVars, treeVars, titleVars, navVars>>

\* FS17_Mod_List.py 85 and 144-175, for the archive zipfile; 'in' raises
\* TypeError when installed_mods is None
MarkArchive ==
    /\ instPc = "loop"
    /\ IF installed_mods.isNone
       THEN /\ instPc' = "crashed"
            /\ UNCHANGED <<is_installed, block>>
       ELSE /\ is_installed' = IsIn(zipfile, installed_mods)
            /\ block' = ModBlock(IsIn(zipfile, installed_mods))
            /\ instPc' = "done"
    /\ UNCHANGED <<saveDir, zipfile, installed_mods>>
    /\ UNCHANGED <<fixVars, l10nVars, iconVars, loadVars, mainVars, htmlVars, treeVars, titleVars, navVars>>

FILE_A_ZIP == <<"a", ".", "z", "i", "p">>
FILE_UPPER_A_ZIP == <<"A", ".", "z", "i", "p">>
FILE_B_ZIP == <<"b", ".", "z", "i", "p">>
FILE_A_TXT == <<"a", ".", "t", "x", "t">>

\* The number of files in the directory of the installed mods, at most.
MaxInstalled == 2

SaveDirs ==
    {[exists |-> FALSE, listing |-> FALSE, files |-> <<>>],
     [exists |-> TRUE, listing |-> FALSE, files |-> <<>>]}
    \cup {[exists |-> TRUE, listing |-> TRUE, files |-> fs] :
            fs \in {f \in UNION {[1..n -> {DirEntry(FILE_A_ZIP), DirEntry(FILE_UPPER_A_ZIP),
                                           DirEntry(FILE_B_ZIP), DirEntry(FILE_A_TXT)}] :
                                    n \in 0..MaxInstalled} :
                        \A i, j \in 1..Len(f) : i # j => f[i] # f[j]}}

(***************************************************************************)
(* The catalog assembler (spec 4.7): the entries are grouped by category,  *)
(* the categories are listed in the lexical order of their raw strings,    *)
(* and a label is the category without a leading digits_ prefix.  The      *)
(* script that does this with fs17.py and tiny_html.py is not among the    *)
(* sources; this part follows the specification.                           *)
(***************************************************************************)
CAT_10_EQUIPMENT == <<"1","0","_","E","q","u","i","p","m","e","n","t">>
CAT_2_VEHICLES == <<"2","_","V","e","h","i","c","l","e","s">>
CAT_1_TOOLS == <<"1","_","T","o","o","l","s">>
CAT_MAPS == <<"M","a","p","s">>
CAT_NONE == <<"N","o","n","e">>
LABEL_EQUIPMENT == <<"E","q","u","i","p","m","e","n","t">>
LABEL_VEHICLES == <<"V","e","h","i","c","l","e","s">>

IsDigit(ch) == \E i \in 1..Len(DIGITS) : DIGITS[i] = ch

\* The number of digits a category string starts with.
LeadingDigits(cat) ==
    LET stops == {k \in 1..Len(cat) : ~IsDigit(cat[k])}
    IN  IF stops = {} THEN Len(cat)
        ELSE (CHOOSE k \in stops : \A r \in stops : k <= r) - 1

\* The label of a category: a leading digits_ prefix is stripped.
Label(cat) ==
    LET n == LeadingDigits(cat)
    IN  IF n >= 1 /\ n < Len(cat) /\ cat[n + 1] = "_"
        THEN SubSeq(cat, n + 2, Len(cat))
        ELSE cat

\* The number a category string starts with; none sorts last.
RECURSIVE DigitsValue(_, _)
DigitsValue(cat, n) ==
    IF n = 0 THEN 0 ELSE 10 * DigitsValue(cat, n - 1) + (Ord(cat[n]) - 48)
PrefixNumber(cat) ==
    IF LeadingDigits(cat) = 0 THEN 1000 ELSE DigitsValue(cat, LeadingDigits(cat))

\* The categories in the order of the numbers they start with.
RECURSIVE SortedByNumber(_)
SortedByNumber(S) ==
    IF S = {} THEN <<>>
    ELSE LET m == CHOOSE x \in S : \A y \in S \ {x} :
                      \/ PrefixNumber(x) < PrefixNumber(y)
                      \/ PrefixNumber(x) = PrefixNumber(y) /\ StrLess(x, y)
         IN  <<m>> \o SortedByNumber(S \ {m})

\* The categories of the entries, in lexical order of the raw strings.
SortedCategories(S) == SortedStrs(S)

\* The entries of one category, in the order in which they were added.
Bucket(entries, cat) ==
    SelectSeq([i \in 1..Len(entries) |-> i], LAMBDA i : entries[i] = cat)

\* The entries in render order: category by category.
RECURSIVE RenderOrder(_, _)
RenderOrder(entries, cats) ==
    IF cats = <<>> THEN <<>>
    ELSE Bucket(entries, Head(cats)) \o RenderOrder(entries, Tail(cats))

\* assemble(entries): buckets by category, the sorted categories, their
\* labels, the entries numbered in render order; no navigation row when the
\* only category is the "None" sentinel.
Assemble ==
    /\ navPc = "start"
    /\ LET cats == SortedCategories({navEntries[i] : i \in 1..Len(navEntries)})
       IN  /\ navCategories' = cats
           /\ navLabels' = [i \in 1..Len(cats) |-> Label(cats[i])]
           /\ navOrder' = RenderOrder(navEntries, cats)
           /\ navShown' = (cats # <<CAT_NONE>>)
    /\ navPc' = "done"
    /\ UNCHANGED navEntries
    /\ UNCHANGED <<fixVars, l10nVars, iconVars, loadVars, mainVars, htmlVars, treeVars, titleVars, instVars>>

MaxNavEntries == 3
Categories == {CAT_10_EQUIPMENT, CAT_2_VEHICLES, CAT_1_TOOLS, CAT_MAPS, CAT_NONE}
RECURSIVE CategoryLists(_)
CategoryLists(n) ==
    IF n = 0 THEN {<<>>}
    ELSE CategoryLists(n - 1) \cup
         {Append(l, c) : l \in {x \in CategoryLists(n - 1) : Len(x) = n - 1}, c \in Categories}

(***************************************************************************)
(* The specifications: one per part of the program.  The variables of the  *)
(* other parts stay at their idle values.                                  *)
(***************************************************************************)
\* a descriptor text is repaired, twice
InitFix ==
    /\ xml \in FixInputs
    /\ fixed = <<>>
    /\ fixedTwice = <<>>
    /\ fixPc = "raw"
    /\ node = Absent
    /\ l10nResult = Pending
    /\ l10nPc = "idle"
    /\ modDesc = NoL10nDoc(FALSE, <<>>)
    /\ iconVariant = "Mod"
    /\ zipStatus = [n \in ZipNames |-> "missing"]
    /\ fsFiles = {}
    /\ declared = <<>>
    /\ icon_file = <<>>
    /\ attempts = <<>>
    /\ iconPc = "idle"
    /\ storeItemEls = <<>>
    /\ store_item_xmls = <<>>
    /\ store_items = <<>>
    /\ itemIdx = 0
    /\ loadExc = "none"
    /\ loadPc = "idle"
    /\ vault = [listing |-> FALSE, files |-> <<>>]
    /\ list_of_zipfiles = [isNone |-> FALSE, files |-> <<>>]
    /\ idx = 0
    /\ other_mods = <<>>
    /\ map_mods = <<>>
    /\ saved = <<>>
    /\ printed = <<>>
    /\ exitStatus = 0
    /\ uncaught = "none"
    /\ mainPc = "idle"
    /\ navEntries = <<>>
    /\ navCategories = <<>>
    /\ navLabels = <<>>
    /\ navOrder = <<>>
    /\ navShown = FALSE
    /\ navPc = "idle"
    /\ saveDir = [exists |-> FALSE, listing |-> FALSE, files |-> <<>>]
    /\ zipfile = <<>>
    /\ installed_mods = [isNone |-> FALSE, files |-> <<>>]
    /\ is_installed = FALSE
    /\ block = <<>>
    /\ instPc = "idle"
    /\ titleVariant = "Mod"
    /\ titleResult = Pending
    /\ titlePc = "idle"
    /\ tagChildren = <<>>
    /\ tagTree = <<>>
    /\ tagIndent = <<>>
    /\ htmlOut = <<>>
    /\ htmlPc = "idle"

NextFix == Repair \/ RepairAgain

SpecFix == InitFix /\ [][NextFix]_vars

\* one call of Mod.l10n
InitL10n ==
    /\ xml = <<>>
    /\ fixed = <<>>
    /\ fixedTwice = <<>>
    /\ fixPc = "idle"
    /\ \/ modDesc \in SimpleDocs /\ node \in RichNodes
       \/ modDesc \in RichDocs /\ node \in KeyNodes
    /\ l10nResult = Pending
    /\ l10nPc = "call"
    /\ iconVariant = "Mod"
    /\ zipStatus = [n \in ZipNames |-> "missing"]
    /\ fsFiles = {}
    /\ declared = <<>>
    /\ icon_file = <<>>
    /\ attempts = <<>>
    /\ iconPc = "idle"
    /\ storeItemEls = <<>>
    /\ store_item_xmls = <<>>
    /\ store_items = <<>>
    /\ itemIdx = 0
    /\ loadExc = "none"
    /\ loadPc = "idle"
    /\ vault = [listing |-> FALSE, files |-> <<>>]
    /\ list_of_zipfiles = [isNone |-> FALSE, files |-> <<>>]
    /\ idx = 0
    /\ other_mods = <<>>
    /\ map_mods = <<>>
    /\ saved = <<>>
    /\ printed = <<>>
    /\ exitStatus = 0
    /\ uncaught = "none"
    /\ mainPc = "idle"
    /\ navEntries = <<>>
    /\ navCategories = <<>>
    /\ navLabels = <<>>
    /\ navOrder = <<>>
    /\ navShown = FALSE
    /\ navPc = "idle"
    /\ saveDir = [exists |-> FALSE, listing |-> FALSE, files |-> <<>>]
    /\ zipfile = <<>>
    /\ installed_mods = [isNone |-> FALSE, files |-> <<>>]
    /\ is_installed = FALSE
    /\ block = <<>>
    /\ instPc = "idle"
    /\ titleVariant = "Mod"
    /\ titleResult = Pending
    /\ titlePc = "idle"
    /\ tagChildren = <<>>
    /\ tagTree = <<>>
    /\ tagIndent = <<>>
    /\ htmlOut = <<>>
    /\ htmlPc = "idle"

NextL10n == Resolve

SpecL10n == InitL10n /\ [][NextL10n]_vars

\* one icon lookup
InitIcon ==
    /\ xml = <<>>
    /\ fixed = <<>>
    /\ fixedTwice = <<>>
    /\ fixPc = "idle"
    /\ node = Absent
    /\ l10nResult = Pending
    /\ l10nPc = "idle"
    /\ modDesc = NoL10nDoc(FALSE, <<>>)
    /\ iconVariant \in {"Mod", "script"}
    /\ zipStatus \in [ZipNames -> {"there", "missing", "broken"}]
    /\ fsFiles \in SUBSET FsNames
    /\ declared \in DeclaredNames
    /\ icon_file = declared
    /\ attempts = <<>>
    /\ iconPc = "start"
    /\ storeItemEls = <<>>
    /\ store_item_xmls = <<>>
    /\ store_items = <<>>
    /\ itemIdx = 0
    /\ loadExc = "none"
    /\ loadPc = "idle"
    /\ vault = [listing |-> FALSE, files |-> <<>>]
    /\ list_of_zipfiles = [isNone |-> FALSE, files |-> <<>>]
    /\ idx = 0
    /\ other_mods = <<>>
    /\ map_mods = <<>>
    /\ saved = <<>>
    /\ printed = <<>>
    /\ exitStatus = 0
    /\ uncaught = "none"
    /\ mainPc = "idle"
    /\ navEntries = <<>>
    /\ navCategories = <<>>
    /\ navLabels = <<>>
    /\ navOrder = <<>>
    /\ navShown = FALSE
    /\ navPc = "idle"
    /\ saveDir = [exists |-> FALSE, listing |-> FALSE, files |-> <<>>]
    /\ zipfile = <<>>
    /\ installed_mods = [isNone |-> FALSE, files |-> <<>>]
    /\ is_installed = FALSE
    /\ block = <<>>
    /\ instPc = "idle"
    /\ titleVariant = "Mod"
    /\ titleResult = Pending
    /\ titlePc = "idle"
    /\ tagChildren = <<>>
    /\ tagTree = <<>>
    /\ tagIndent = <<>>
    /\ htmlOut = <<>>
    /\ htmlPc = "idle"

NextIcon == EnterIconLoop \/ TryIconMod \/ TryIconScript

SpecIcon == InitIcon /\ [][NextIcon]_vars

\* the same lookup, run to its end: the loop is sequential code, a round
\* that can be taken is taken
SpecIconRun == InitIcon /\ [][NextIcon]_vars /\ WF_vars(NextIcon)

\* the store items of one Mod.load
InitLoad ==
    /\ xml = <<>>
    /\ fixed = <<>>
    /\ fixedTwice = <<>>
    /\ fixPc = "idle"
    /\ node = Absent
    /\ l10nResult = Pending
    /\ l10nPc = "idle"
    /\ iconVariant = "Mod"
    /\ zipStatus = [n \in ZipNames |-> "missing"]
    /\ fsFiles = {}
    /\ declared = <<>>
    /\ icon_file = <<>>
    /\ attempts = <<>>
    /\ iconPc = "idle"
    /\ modDesc \in LoadDocs
    /\ storeItemEls \in UNION {[1..n -> StoreItemEls] : n \in 0..MaxStoreItems}
    /\ store_item_xmls = <<>>
    /\ store_items = <<>>
    /\ itemIdx = 0
    /\ loadExc = "none"
    /\ loadPc = "collect"
    /\ vault = [listing |-> FALSE, files |-> <<>>]
    /\ list_of_zipfiles = [isNone |-> FALSE, files |-> <<>>]
    /\ idx = 0
    /\ other_mods = <<>>
    /\ map_mods = <<>>
    /\ saved = <<>>
    /\ printed = <<>>
    /\ exitStatus = 0
    /\ uncaught = "none"
    /\ mainPc = "idle"
    /\ navEntries = <<>>
    /\ navCategories = <<>>
    /\ navLabels = <<>>
    /\ navOrder = <<>>
    /\ navShown = FALSE
    /\ navPc = "idle"
    /\ saveDir = [exists |-> FALSE, listing |-> FALSE, files |-> <<>>]
    /\ zipfile = <<>>
    /\ installed_mods = [isNone |-> FALSE, files |-> <<>>]
    /\ is_installed = FALSE
    /\ block = <<>>
    /\ instPc = "idle"
    /\ titleVariant = "Mod"
    /\ titleResult = Pending
    /\ titlePc = "idle"
    /\ tagChildren = <<>>
    /\ tagTree = <<>>
    /\ tagIndent = <<>>
    /\ htmlOut = <<>>
    /\ htmlPc = "idle"

NextLoad == CollectStoreItems \/ HandleStoreItem \/ FinishLoad

SpecLoad == InitLoad /\ [][NextLoad]_vars

\* one run of main
InitMain ==
    /\ xml = <<>>
    /\ fixed = <<>>
    /\ fixedTwice = <<>>
    /\ fixPc = "idle"
    /\ node = Absent
    /\ l10nResult = Pending
    /\ l10nPc = "idle"
    /\ modDesc = NoL10nDoc(FALSE, <<>>)
    /\ iconVariant = "Mod"
    /\ zipStatus = [n \in ZipNames |-> "missing"]
    /\ fsFiles = {}
    /\ declared = <<>>
    /\ icon_file = <<>>
    /\ attempts = <<>>
    /\ iconPc = "idle"
    /\ storeItemEls = <<>>
    /\ store_item_xmls = <<>>
    /\ store_items = <<>>
    /\ itemIdx = 0
    /\ loadExc = "none"
    /\ loadPc = "idle"
    /\ vault \in Vaults
    /\ list_of_zipfiles = [isNone |-> FALSE, files |-> <<>>]
    /\ idx = 0
    /\ other_mods = <<>>
    /\ map_mods = <<>>
    /\ saved = <<>>
    /\ printed = <<>>
    /\ exitStatus = 0
    /\ uncaught = "none"
    /\ mainPc = "start"
    /\ navEntries = <<>>
    /\ navCategories = <<>>
    /\ navLabels = <<>>
    /\ navOrder = <<>>
    /\ navShown = FALSE
    /\ navPc = "idle"
    /\ saveDir = [exists |-> FALSE, listing |-> FALSE, files |-> <<>>]
    /\ zipfile = <<>>
    /\ installed_mods = [isNone |-> FALSE, files |-> <<>>]
    /\ is_installed = FALSE
    /\ block = <<>>
    /\ instPc = "idle"
    /\ titleVariant = "Mod"
    /\ titleResult = Pending
    /\ titlePc = "idle"
    /\ tagChildren = <<>>
    /\ tagTree = <<>>
    /\ tagIndent = <<>>
    /\ htmlOut = <<>>
    /\ htmlPc = "idle"

NextMain == Scan \/ ProcessArchive \/ WriteOutput

SpecMain == InitMain /\ [][NextMain]_vars

\* one call of Tag.html
InitHtml ==
    /\ xml = <<>>
    /\ fixed = <<>>
    /\ fixedTwice = <<>>
    /\ fixPc = "idle"
    /\ node = Absent
    /\ l10nResult = Pending
    /\ l10nPc = "idle"
    /\ modDesc = NoL10nDoc(FALSE, <<>>)
    /\ iconVariant = "Mod"
    /\ zipStatus = [n \in ZipNames |-> "missing"]
    /\ fsFiles = {}
    /\ declared = <<>>
    /\ icon_file = <<>>
    /\ attempts = <<>>
    /\ iconPc = "idle"
    /\ storeItemEls = <<>>
    /\ store_item_xmls = <<>>
    /\ store_items = <<>>
    /\ itemIdx = 0
    /\ loadExc = "none"
    /\ loadPc = "idle"
    /\ vault = [listing |-> FALSE, files |-> <<>>]
    /\ list_of_zipfiles = [isNone |-> FALSE, files |-> <<>>]
    /\ idx = 0
    /\ other_mods = <<>>
    /\ map_mods = <<>>
    /\ saved = <<>>
    /\ printed = <<>>
    /\ exitStatus = 0
    /\ uncaught = "none"
    /\ mainPc = "idle"
    /\ navEntries = <<>>
    /\ navCategories = <<>>
    /\ navLabels = <<>>
    /\ navOrder = <<>>
    /\ navShown = FALSE
    /\ navPc = "idle"
    /\ saveDir = [exists |-> FALSE, listing |-> FALSE, files |-> <<>>]
    /\ zipfile = <<>>
    /\ installed_mods = [isNone |-> FALSE, files |-> <<>>]
    /\ is_installed = FALSE
    /\ block = <<>>
    /\ instPc = "idle"
    /\ titleVariant = "Mod"
    /\ titleResult = Pending
    /\ titlePc = "idle"
    /\ tagChildren = <<>>
    /\ tagTree \in TagTrees
    /\ tagIndent \in {<<>>, INDENT}
    /\ htmlOut = <<>>
    /\ htmlPc = "call"

NextHtml == Serialize

SpecHtml == InitHtml /\ [][NextHtml]_vars

\* a tree is built, starting from one Tag object
InitTree ==
    /\ xml = <<>>
    /\ fixed = <<>>
    /\ fixedTwice = <<>>
    /\ fixPc = "idle"
    /\ node = Absent
    /\ l10nResult = Pending
    /\ l10nPc = "idle"
    /\ modDesc = NoL10nDoc(FALSE, <<>>)
    /\ iconVariant = "Mod"
    /\ zipStatus = [n \in ZipNames |-> "missing"]
    /\ fsFiles = {}
    /\ declared = <<>>
    /\ icon_file = <<>>
    /\ attempts = <<>>
    /\ iconPc = "idle"
    /\ storeItemEls = <<>>
    /\ store_item_xmls = <<>>
    /\ store_items = <<>>
    /\ itemIdx = 0
    /\ loadExc = "none"
    /\ loadPc = "idle"
    /\ vault = [listing |-> FALSE, files |-> <<>>]
    /\ list_of_zipfiles = [isNone |-> FALSE, files |-> <<>>]
    /\ idx = 0
    /\ other_mods = <<>>
    /\ map_mods = <<>>
    /\ saved = <<>>
    /\ printed = <<>>
    /\ exitStatus = 0
    /\ uncaught = "none"
    /\ mainPc = "idle"
    /\ navEntries = <<>>
    /\ navCategories = <<>>
    /\ navLabels = <<>>
    /\ navOrder = <<>>
    /\ navShown = FALSE
    /\ navPc = "idle"
    /\ saveDir = [exists |-> FALSE, listing |-> FALSE, files |-> <<>>]
    /\ zipfile = <<>>
    /\ installed_mods = [isNone |-> FALSE, files |-> <<>>]
    /\ is_installed = FALSE
    /\ block = <<>>
    /\ instPc = "idle"
    /\ titleVariant = "Mod"
    /\ titleResult = Pending
    /\ titlePc = "idle"
    /\ tagChildren = <<<<>>>>
    /\ tagTree = <<>>
    /\ tagIndent = <<>>
    /\ htmlOut = <<>>
    /\ htmlPc = "idle"

NextTree == NewTag \/ TagChild \/ AddChild

SpecTree == InitTree /\ [][NextTree]_vars

\* the title of one mod is taken
InitTitle ==
    /\ xml = <<>>
    /\ fixed = <<>>
    /\ fixedTwice = <<>>
    /\ fixPc = "idle"
    /\ node \in RichNodes
    /\ l10nResult = Pending
    /\ l10nPc = "idle"
    /\ modDesc \in TitleDocs
    /\ iconVariant = "Mod"
    /\ zipStatus = [n \in ZipNames |-> "missing"]
    /\ fsFiles = {}
    /\ declared = <<>>
    /\ icon_file = <<>>
    /\ attempts = <<>>
    /\ iconPc = "idle"
    /\ storeItemEls = <<>>
    /\ store_item_xmls = <<>>
    /\ store_items = <<>>
    /\ itemIdx = 0
    /\ loadExc = "none"
    /\ loadPc = "idle"
    /\ vault = [listing |-> FALSE, files |-> <<>>]
    /\ list_of_zipfiles = [isNone |-> FALSE, files |-> <<>>]
    /\ idx = 0
    /\ other_mods = <<>>
    /\ map_mods = <<>>
    /\ saved = <<>>
    /\ printed = <<>>
    /\ exitStatus = 0
    /\ uncaught = "none"
    /\ mainPc = "idle"
    /\ navEntries = <<>>
    /\ navCategories = <<>>
    /\ navLabels = <<>>
    /\ navOrder = <<>>
    /\ navShown = FALSE
    /\ navPc = "idle"
    /\ saveDir = [exists |-> FALSE, listing |-> FALSE, files |-> <<>>]
    /\ zipfile = <<>>
    /\ installed_mods = [isNone |-> FALSE, files |-> <<>>]
    /\ is_installed = FALSE
    /\ block = <<>>
    /\ instPc = "idle"
    /\ titleVariant \in {"Mod", "Script"}
    /\ titleResult = Pending
    /\ titlePc = "call"
    /\ tagChildren = <<>>
    /\ tagTree = <<>>
    /\ tagIndent = <<>>
    /\ htmlOut = <<>>
    /\ htmlPc = "idle"

NextTitle == GetModTitle

SpecTitle == InitTitle /\ [][NextTitle]_vars

\* the installed mods are listed and one archive is marked
InitInstalled ==
    /\ xml = <<>>
    /\ fixed = <<>>
    /\ fixedTwice = <<>>
    /\ fixPc = "idle"
    /\ node = Absent
    /\ l10nResult = Pending
    /\ l10nPc = "idle"
    /\ modDesc = NoL10nDoc(FALSE, <<>>)
    /\ iconVariant = "Mod"
    /\ zipStatus = [n \in ZipNames |-> "missing"]
    /\ fsFiles = {}
    /\ declared = <<>>
    /\ icon_file = <<>>
    /\ attempts = <<>>
    /\ iconPc = "idle"
    /\ storeItemEls = <<>>
    /\ store_item_xmls = <<>>
    /\ store_items = <<>>
    /\ itemIdx = 0
    /\ loadExc = "none"
    /\ loadPc = "idle"
    /\ vault = [listing |-> FALSE, files |-> <<>>]
    /\ list_of_zipfiles = [isNone |-> FALSE, files |-> <<>>]
    /\ idx = 0
    /\ other_mods = <<>>
    /\ map_mods = <<>>
    /\ saved = <<>>
    /\ printed = <<>>
    /\ exitStatus = 0
    /\ uncaught = "none"
    /\ mainPc = "idle"
    /\ navEntries = <<>>
    /\ navCategories = <<>>
    /\ navLabels = <<>>
    /\ navOrder = <<>>
    /\ navShown = FALSE
    /\ navPc = "idle"
    /\ saveDir \in SaveDirs
    /\ zipfile \in {FILE_A_ZIP, FILE_UPPER_A_ZIP, FILE_B_ZIP}
    /\ installed_mods = [isNone |-> FALSE, files |-> <<>>]
    /\ is_installed = FALSE
    /\ block = <<>>
    /\ instPc = "start"
    /\ titleVariant = "Mod"
    /\ titleResult = Pending
    /\ titlePc = "idle"
    /\ tagChildren = <<>>
    /\ tagTree = <<>>
    /\ tagIndent = <<>>
    /\ htmlOut = <<>>
    /\ htmlPc = "idle"

NextInstalled == ListInstalled \/ MarkArchive

SpecInstalled == InitInstalled /\ [][NextInstalled]_vars

\* the entries of a catalog are assembled
InitNav ==
    /\ xml = <<>>
    /\ fixed = <<>>
    /\ fixedTwice = <<>>
    /\ fixPc = "idle"
    /\ node = Absent
    /\ l10nResult = Pending
    /\ l10nPc = "idle"
    /\ modDesc = NoL10nDoc(FALSE, <<>>)
    /\ iconVariant = "Mod"
    /\ zipStatus = [n \in ZipNames |-> "missing"]
    /\ fsFiles = {}
    /\ declared = <<>>
    /\ icon_file = <<>>
    /\ attempts = <<>>
    /\ iconPc = "idle"
    /\ storeItemEls = <<>>
    /\ store_item_xmls = <<>>
    /\ store_items = <<>>
    /\ itemIdx = 0
    /\ loadExc = "none"
    /\ loadPc = "idle"
    /\ vault = [listing |-> FALSE, files |-> <<>>]
    /\ list_of_zipfiles = [isNone |-> FALSE, files |-> <<>>]
    /\ idx = 0
    /\ other_mods = <<>>
    /\ map_mods = <<>>
    /\ saved = <<>>
    /\ printed = <<>>
    /\ exitStatus = 0
    /\ uncaught = "none"
    /\ mainPc = "idle"
    /\ navEntries \in CategoryLists(MaxNavEntries)
    /\ navCategories = <<>>
    /\ navLabels = <<>>
    /\ navOrder = <<>>
    /\ navShown = FALSE
    /\ navPc = "start"
    /\ saveDir = [exists |-> FALSE, listing |-> FALSE, files |-> <<>>]
    /\ zipfile = <<>>
    /\ installed_mods = [isNone |-> FALSE, files |-> <<>>]
    /\ is_installed = FALSE
    /\ block = <<>>
    /\ instPc = "idle"
    /\ titleVariant = "Mod"
    /\ titleResult = Pending
    /\ titlePc = "idle"
    /\ tagChildren = <<>>
    /\ tagTree = <<>>
    /\ tagIndent = <<>>
    /\ htmlOut = <<>>
    /\ htmlPc = "idle"

NextNav == Assemble

SpecNav == InitNav /\ [][NextNav]_vars

(***************************************************************************)
(* The claims.                                                             *)
(***************************************************************************)
Ended == mainPc \in {"done", "exited", "crashed"}

\* The archives whose blocks are in the saved document.
Emitted == IF saved = <<>> THEN {} ELSE {saved[1][j] : j \in 1..Len(saved[1])}

\* C1: in a run over a list of archives, an archive that fails at a
\* per-entry stage is skipped alone: every well-formed archive of the list
\* is in the output and the run reaches the step that writes the output.
C1_FailureIsolation ==
    (Ended /\ ~list_of_zipfiles.isNone /\ list_of_zipfiles.files # <<>>) =>
        /\ Len(saved) = 1
        /\ \A i \in 1..Len(list_of_zipfiles.files) :
              WellFormed(list_of_zipfiles.files[i]) => i \in Emitted

\* C2: the output file is written at most once, and only when every archive
\* of the list has been processed: no state has an output file and an
\* archive still to process.
C2_OutputAfterAll ==
    /\ Len(saved) <= 1
    /\ saved # <<>> =>
          /\ idx = Len(list_of_zipfiles.files)
          /\ Len(other_mods) + Len(map_mods) = Len(list_of_zipfiles.files)
          /\ mainPc = "done"

\* C2 witness: a run over two archives, a map and another mod, has written
\* its output.
C2_Witness ==
    /\ Len(saved) = 1
    /\ Len(list_of_zipfiles.files) = 2
    /\ other_mods # <<>>
    /\ map_mods # <<>>

\* C3: when the scan yields no archive, or no listing at all, the run ends
\* at once with an error message the user sees (the line the script prints,
\* or the traceback of the exception that ends it) and a non-zero exit
\* status, with no output file written and no archive processed.
C3_EmptyScan ==
    (mainPc # "start" /\ (list_of_zipfiles.isNone \/ list_of_zipfiles.files = <<>>)) =>
        /\ mainPc \in {"exited", "crashed"}
        /\ \/ mainPc = "exited" /\ printed = <<MSG_NO_MODS>>
           \/ mainPc = "crashed" /\ uncaught # "none" /\ printed = <<>>
        /\ exitStatus # 0
        /\ saved = <<>>
        /\ idx = 0
        /\ other_mods = <<>>
        /\ map_mods = <<>>

\* C3 witness: the scanned directory holds a file that is no .zip; the list
\* is empty, the script has printed its error line and exited with -1.
C3_Witness ==
    /\ mainPc = "exited"
    /\ vault.listing
    /\ vault.files # <<>>
    /\ list_of_zipfiles.files = <<>>
    /\ printed = <<MSG_NO_MODS>>
    /\ exitStatus = EXIT_MINUS_1

\* The claims' reading of a node: the text of its en child if it has one,
\* else of its de child, else of its fr child, else its own text.
HasChild(n, g) == \E i \in 1..Len(n.kids) : n.kids[i].tag = g
ChildText(n, g) ==
    n.kids[CHOOSE i \in 1..Len(n.kids) :
               /\ n.kids[i].tag = g
               /\ \A j \in 1..(i - 1) : n.kids[j].tag # g].text
PriorityText(n) ==
    IF HasChild(n, "en") THEN ChildText(n, "en")
    ELSE IF HasChild(n, "de") THEN ChildText(n, "de")
    ELSE IF HasChild(n, "fr") THEN ChildText(n, "fr")
    ELSE n.text

IsKey(x) == x # None /\ StartsWith(x, L10N_PREFIX)

\* The same children in another document order.
Reordered(k) ==
    {p \in KidLists : Len(p) = Len(k)
                      /\ {p[i] : i \in 1..Len(p)} = {k[i] : i \in 1..Len(k)}}

\* C4: for a node whose selected text is there and is no indirect key, l10n
\* returns the text of the en child if there is one, else of the de child,
\* else of the fr child, else the node's own text, whatever the document
\* order of the children.
C4_LanguagePriority ==
    (l10nPc = "done" /\ node.present /\ PriorityText(node) # None
        /\ ~IsKey(PriorityText(node))) =>
        /\ l10nResult.exc = "none"
        /\ l10nResult.val = PriorityText(node)
        /\ \A p \in Reordered(node.kids) :
              L10n(modDesc, Elem(node.text, p)) = l10nResult

\* C4 witness: a node with an fr child before a de child and no en child
\* resolved to the text of the de child.
C4_Witness ==
    /\ l10nPc = "done"
    /\ node.present
    /\ node.kids = <<Kid("fr", TEXT_F), Kid("de", TEXT_D)>>
    /\ l10nResult.val = TEXT_D

\* C5: for an absent node, and for a node whose selected candidate (its
\* first language child by priority, or itself) has no text, l10n returns
\* the empty string and does not fail.
C5_NoText ==
    (l10nPc = "done" /\ (~node.present \/ PriorityText(node) = None)) =>
        /\ l10nResult.exc = "none"
        /\ l10nResult.val = <<>>

\* The key of the claims: the text with the prefix stripped.
StripPrefix(x) == SubSeq(x, Len(L10N_PREFIX) + 1, Len(x))
InlineMatch(doc, key) == IF doc.hasL10n THEN FirstNamed(doc.texts, key) ELSE 0
AuxMatch(doc, key) ==
    IF doc.hasL10n /\ doc.prefix /\ doc.auxPresent THEN FirstNamed(doc.aux, key) ELSE 0

\* C6: for a candidate text that starts with $l10n_, with key the text
\* without that prefix: (1) if the inline table has an entry named key, the
\* result is l10n of the first such entry and the auxiliary document is not
\* read; (2) else, if a filenamePrefix is declared and the auxiliary
\* document has an entry named key, the result is the text attribute of
\* that entry; (3) else the result is the candidate text unchanged.
C6_IndirectKey ==
    (l10nPc = "done" /\ node.present /\ IsKey(PriorityText(node))) =>
        LET cand == PriorityText(node)
            key == StripPrefix(cand)
            i == InlineMatch(modDesc, key)
            j == AuxMatch(modDesc, key)
        IN  IF i # 0
            THEN /\ l10nResult.exc = L10n(modDesc, modDesc.texts[i].el).exc
                 /\ l10nResult.val = L10n(modDesc, modDesc.texts[i].el).val
                 /\ \A r \in 1..Len(l10nResult.auxReads) : l10nResult.auxReads[r] # key
            ELSE IF j # 0
                 THEN l10nResult.exc = "none" /\ l10nResult.val = modDesc.aux[j].text
                 ELSE l10nResult.exc = "none" /\ l10nResult.val = cand

\* C7: when the descriptor has no inline table, or declares a
\* filenamePrefix whose auxiliary document is not in the archive, an
\* indirect key that the inline table does not hold resolves to the key
\* text itself and nothing is raised.
C7_MissingSources ==
    (l10nPc = "done" /\ node.present /\ IsKey(PriorityText(node))
        /\ InlineMatch(modDesc, ToFind(PriorityText(node))) = 0
        /\ (~modDesc.hasL10n \/ modDesc.texts = <<>> \/ (modDesc.prefix /\ ~modDesc.auxPresent))
        /\ AuxMatch(modDesc, ToFind(PriorityText(node))) = 0) =>
        /\ l10nResult.exc = "none"
        /\ l10nResult.val = PriorityText(node)

\* C8: the lookups for an icon are made in the order archive (declared
\* path), archive (.dds path, if the path ends in .png), filesystem: the
\* filesystem is not consulted for a .png path before the .dds path has
\* been read from the archive, a failure of the archive read other than
\* not-found is followed by no fallback, and not-found is the outcome only
\* after the archive and the filesystem were tried for the final name.
C8_IconOrder ==
    /\ \A i \in 1..Len(attempts) :
          (attempts[i].src \in {"fs", "exists"} /\ EndsWith(attempts[i].name, EXT_PNG)) =>
              \E j \in 1..(i - 1) :
                  /\ attempts[j].src = "zip"
                  /\ attempts[j].name = Replace(attempts[i].name, EXT_PNG, EXT_DDS)
    /\ \A i \in 1..Len(attempts) :
          (attempts[i].src = "zip" /\ attempts[i].res = "error") => i = Len(attempts)
    /\ iconPc \in {"notfound", "exit"} =>
          /\ \E i \in 1..Len(attempts) :
                attempts[i].src = "zip" /\ attempts[i].name = icon_file
          /\ \E i \in 1..Len(attempts) :
                attempts[i].src \in {"fs", "exists"} /\ attempts[i].name = icon_file

\* The store items the claims expect of a descriptor: the Item of every
\* <storeItem> that is handled without a failure, in declaration order.
RECURSIVE HandledItems(_, _)
HandledItems(doc, els) ==
    IF els = <<>> THEN <<>>
    ELSE LET e == Head(els)
             good == /\ e.hasXmlFilename
                     /\ e.file.read = "ok"
                     /\ e.file.decodes
                     /\ e.file.parses
                     /\ BuildItem(doc, e.file).exc = "none"
         IN  (IF good THEN <<BuildItem(doc, e.file).item>> ELSE <<>>)
                 \o HandledItems(doc, Tail(els))

\* C9: a failure while one store item is handled drops that store item
\* alone: load completes, and store_items holds the items handled without
\* a failure, in declaration order.
C9_StoreItemIsolation ==
    loadPc \in {"done", "failed"} =>
        /\ loadPc = "done"
        /\ store_items = HandledItems(modDesc, storeItemEls)

\* C10: repairing a repaired text changes nothing:
\* _fix_xml(_fix_xml(x)) = _fix_xml(x).
C10_RepairIdempotent == fixPc = "twice" => fixedTwice = fixed

\* The dicts that hold the items of a, inserted in any order.
Reinserted(a) ==
    {p \in AttrDicts : /\ Len(p) = Len(a)
                       /\ {p[i] : i \in 1..Len(p)} = {a[i] : i \in 1..Len(a)}}

\* The items of a as name="value", each after a space, by ascending name.
RECURSIVE ItemsText(_, _)
ItemsText(p, i) ==
    IF i > Len(p) THEN <<>>
    ELSE <<" ">> \o p[i][1] \o <<"=", "\"">> \o p[i][2] \o <<"\"">> \o ItemsText(p, i + 1)

AscendingItemsText(a) ==
    ItemsText(CHOOSE p \in Reinserted(a) :
                  \A i, j \in 1..Len(p) : i < j => StrLess(p[i][1], p[j][1]), 1)

\* C11: Tag.html writes the attributes of a tag by ascending name, each as
\* name="value" with the value as it is, so the output is the same for
\* every order in which the attributes were inserted.
C11_SortedAttributes ==
    htmlPc = "done" =>
        /\ StartsWith(htmlOut, tagIndent \o <<"<">> \o tagTree.name
                                   \o AscendingItemsText(tagTree.attributes))
        /\ \A p \in Reinserted(tagTree.attributes) :
              TagHtml([tagTree EXCEPT !.attributes = p], tagIndent) = htmlOut

\* C11 witness: a tag whose two attributes were inserted in descending order
\* of their names, one value holding a quote, has been serialized.
C11_Witness ==
    /\ htmlPc = "done"
    /\ Len(tagTree.attributes) = 2
    /\ StrLess(tagTree.attributes[2][1], tagTree.attributes[1][1])
    /\ tagTree.attributes[1][2] = VAL_QUOTE

\* C12: a tag with no text and no children is written self-closed,
\* <name .../>, except br, which is written as the pair <br ...></br>.
C12_EmptyElement ==
    (htmlPc = "done" /\ tagTree.text = None /\ tagTree.children = <<>>) =>
        htmlOut = tagIndent \o <<"<">> \o tagTree.name
                      \o AscendingItemsText(tagTree.attributes)
                      \o (IF tagTree.name = TAG_BR
                          THEN <<">", "<", "/", "b", "r", ">">>
                          ELSE <<"/", ">">>)
                      \o LINEBR

\* The layout C13 states, for a tag with children or text.
OpenTag(t) == <<"<">> \o t.name \o AscendingItemsText(t.attributes) \o <<">">>
CloseTag(t) == <<"<", "/">> \o t.name \o <<">">>
HasNewline(x) == \E i \in 1..Len(x) : x[i] = NL

RECURSIVE Layout(_, _)
RECURSIVE LayoutAll(_, _, _)
Layout(t, ind) ==
    IF t.children # <<>> \/ (t.text # None /\ HasNewline(t.text))
    THEN ind \o OpenTag(t) \o LINEBR
             \o (IF t.text # None THEN ind \o INDENT \o t.text \o LINEBR ELSE <<>>)
             \o LayoutAll(t.children, ind \o INDENT, 1)
             \o ind \o CloseTag(t) \o LINEBR
    ELSE IF t.text # None
         THEN ind \o OpenTag(t) \o t.text \o CloseTag(t) \o LINEBR
         ELSE TagHtml(t, ind)

LayoutAll(children, ind, i) ==
    IF i > Len(children) THEN <<>>
    ELSE Layout(children[i], ind) \o LayoutAll(children, ind, i + 1)

\* C13: a tag at indent i with a child, or with a newline in its text, is
\* written as the opening tag, a newline, the text (if any) on a line at
\* indent i plus one unit, the children in insertion order at indent i plus
\* one unit, and the closing tag on its own line at indent i; a tag with a
\* text without newline and no children is the one line <name>text</name>
\* at indent i.
C13_Layout ==
    (htmlPc = "done" /\ (tagTree.children # <<>> \/ tagTree.text # None)) =>
        htmlOut = Layout(tagTree, tagIndent)

\* C13 witness: a tag at indent one, with a text of two lines and two
\* children, one of them with a child of its own, has been serialized.
C13_Witness ==
    /\ htmlPc = "done"
    /\ tagIndent = INDENT
    /\ tagTree.text = TEXT_TWO_LINES
    /\ Len(tagTree.children) = 2
    /\ tagTree.children[2].children # <<>>

\* The objects in whose children list o is, once for each place.
Places(o) ==
    {<<p, i>> \in (1..Len(tagChildren)) \X (1..MaxAdds) :
        i <= Len(tagChildren[p]) /\ tagChildren[p][i] = o}

\* The objects reached from o through at most k children lists.
RECURSIVE Below(_, _)
Below(o, k) ==
    IF k = 0 THEN {}
    ELSE LET kids == {tagChildren[o][i] : i \in 1..Len(tagChildren[o])}
         IN  kids \cup UNION {Below(c, k - 1) : c \in kids}

\* C14: after any sequence of Tag.tag and Tag.add calls, every object is in
\* the children list of at most one parent, at most once, and is not its
\* own ancestor: add moves an object that has a parent.
C14_TreeOwnership ==
    \A o \in 1..Len(tagChildren) :
        /\ Cardinality(Places(o)) <= 1
        /\ o \notin Below(o, Len(tagChildren))


\* C15: whatever the <title> element of the descriptor (absent, without a
\* language child, with a language child without text, with a text), the
\* title is a non-empty string, and it is "UNKNOWN" when no title text can
\* be resolved.
C15_TitleNeverEmpty ==
    titlePc = "done" =>
        /\ titleResult.exc = "none"
        /\ titleResult.val # None
        /\ titleResult.val # <<>>
        /\ (~node.present \/ PriorityText(node) \in {None, <<>>}) =>
              titleResult.val = UNKNOWN


\* The names of the archives in the directory of the installed mods.
InstalledNames ==
    IF ~saveDir.exists THEN {}
    ELSE {saveDir.files[i].name : i \in {j \in 1..Len(saveDir.files) :
                                             EndsWith(saveDir.files[j].name, EXT_ZIP)}}

\* The div that holds the title of the block of a mod: div/table/tr/td[2]/div[1].
TitleDiv(b) == b.children[1].children[1].children[2].children[1]
HasClass(t, c) == \E i \in 1..Len(t.attributes) : t.attributes[i] = <<ATTR_CLASS, c>>

\* C16: for a processed archive, is_installed is true exactly when the file
\* name of the archive is, letter for letter, one of the names of the
\* installed archives; and the block of the mod has class instDiv on its
\* div, and no class fsgreen on its title, exactly when is_installed is true.
C16_InstalledMarker ==
    instPc = "done" =>
        /\ is_installed <=> zipfile \in InstalledNames
        /\ HasClass(block, CLASS_INST_DIV) <=> is_installed
        /\ ~HasClass(TitleDiv(block), CLASS_FSGREEN) <=> is_installed
        /\ StartsWith(TagHtml(block, <<>>),
                      IF is_installed
                      THEN <<"<">> \o TAG_DIV \o <<" ">> \o ATTR_CLASS \o <<"=", "\"">>
                               \o CLASS_INST_DIV \o <<"\"", ">">>
                      ELSE <<"<">> \o TAG_DIV \o <<">">>)

\* C16 witness: an archive a.zip was marked installed, the directory of the
\* installed mods holding A.zip and a.zip.
C16_Witness ==
    /\ instPc = "done"
    /\ is_installed
    /\ zipfile = FILE_A_ZIP
    /\ saveDir.files = <<DirEntry(FILE_UPPER_A_ZIP), DirEntry(FILE_A_ZIP)>>


\* The places of archive i in a list of blocks.
PlacesIn(blocks, i) == {j \in 1..Len(blocks) : blocks[j] = i}
IsMap(i) == list_of_zipfiles.files[i].maps

\* C17: at the end of a run, every archive that was extracted (its block
\* was built and put in one of the two lists) is in the output exactly
\* once, and the blocks of a list are in the output in the order in which
\* the archives were found.
C17_NoEntryLost ==
    Ended =>
        /\ \A i \in 1..idx :
              /\ Cardinality(PlacesIn(other_mods, i)) + Cardinality(PlacesIn(map_mods, i)) = 1
              /\ saved # <<>>
              /\ Cardinality(PlacesIn(saved[1], i)) = 1
        /\ saved # <<>> =>
              \A j, k \in 1..Len(saved[1]) :
                 (j < k /\ IsMap(saved[1][j]) = IsMap(saved[1][k])) => saved[1][j] < saved[1][k]

\* The place of a category in the navigation.
Listed(cat) == \E i \in 1..Len(navCategories) : navCategories[i] = cat
PlaceOf(cat) == CHOOSE i \in 1..Len(navCategories) : navCategories[i] = cat

\* C18 as stated: with the categories "10_Equipment" and "2_Vehicles", the
\* navigation lists Equipment after Vehicles.
C18_EquipmentAfterVehicles ==
    (navPc = "done" /\ Listed(CAT_10_EQUIPMENT) /\ Listed(CAT_2_VEHICLES))
        => PlaceOf(CAT_10_EQUIPMENT) > PlaceOf(CAT_2_VEHICLES)

\* C18, amended: the categories of the entries are listed once each in the
\* lexical order of their raw strings, the entries are rendered category by
\* category in that order, and the labels of "10_Equipment" and "2_Vehicles"
\* are "Equipment" and "Vehicles"; in the lexical order "10_Equipment" comes
\* before "2_Vehicles" ('1' < '2'), so Equipment is listed before Vehicles.
C18_CategoryOrder ==
    navPc = "done" =>
        /\ {navCategories[i] : i \in 1..Len(navCategories)}
              = {navEntries[i] : i \in 1..Len(navEntries)}
        /\ \A i, j \in 1..Len(navCategories) :
              i < j => StrLess(navCategories[i], navCategories[j])
        /\ Len(navLabels) = Len(navCategories)
        /\ Len(navOrder) = Len(navEntries)
        /\ \A i, j \in 1..Len(navOrder) :
              i < j => ~StrLess(navEntries[navOrder[j]], navEntries[navOrder[i]])
        /\ Listed(CAT_10_EQUIPMENT) => navLabels[PlaceOf(CAT_10_EQUIPMENT)] = LABEL_EQUIPMENT
        /\ Listed(CAT_2_VEHICLES) => navLabels[PlaceOf(CAT_2_VEHICLES)] = LABEL_VEHICLES
        /\ (Listed(CAT_10_EQUIPMENT) /\ Listed(CAT_2_VEHICLES))
              => PlaceOf(CAT_10_EQUIPMENT) < PlaceOf(CAT_2_VEHICLES)

\* C18 witness: a catalog whose entries came in the order "2_Vehicles",
\* "10_Equipment" is assembled; the navigation reads Equipment, Vehicles.
C18_Witness ==
    /\ navPc = "done"
    /\ navEntries = <<CAT_2_VEHICLES, CAT_10_EQUIPMENT>>
    /\ navLabels = <<LABEL_EQUIPMENT, LABEL_VEHICLES>>
    /\ navOrder = <<2, 1>>


\* C19: l10n returns on every document, after a bounded number of
\* recursive lookups: also for an inline table in which the text of an
\* entry is a key that leads back to the entry, the call does not recurse
\* until the interpreter gives up with RecursionError.
C19_ResolveTerminates ==
    l10nPc = "done" => l10nResult.exc # "RecursionError"


\* The rounds of the icon loop made so far: each round starts with one
\* read of the archive.
ZipRounds == {i \in 1..Len(attempts) : attempts[i].src = "zip"}
PngRounds == {i \in ZipRounds : EndsWith(attempts[i].name, EXT_PNG)}
IconEnded == iconPc \in {"found", "notfound", "exit"}

\* What holds of the rounds at every point of the lookup.
RoundsBounded ==
    /\ Cardinality(ZipRounds) <= (IF iconVariant = "Mod" THEN 2 ELSE 3)
    /\ Cardinality(PngRounds) <= 1
    /\ \A i, j \in ZipRounds : i # j => attempts[i].name # attempts[j].name
    /\ iconPc = "found" => Found(attempts)
    /\ iconPc \in {"notfound", "exit"} => (attempts # <<>> /\ ~Found(attempts))

\* C20: the icon loop ends, with the icon or with the not-found outcome,
\* for every declared name, archive and filesystem: it makes at most two
\* rounds in Mod._find_icon and three in find_icon, never two for the same
\* name, and at most one round for a name that ends in .png, since the
\* substitution leaves no .png in the name.
C20_IconLoopEnds == []RoundsBounded /\ <>[]IconEnded

\* C20 witness: a declared name with .png twice is in neither place; one
\* substitution makes it i.dds.dds, which no longer ends in .png, and the
\* loop of Mod._find_icon ends after the second round with not-found.
C20_Witness ==
    /\ iconPc = "notfound"
    /\ declared = ICON_PNG_PNG
    /\ Cardinality(ZipRounds) = 2
    /\ Cardinality(PngRounds) = 1
    /\ icon_file = <<"i">> \o EXT_DDS \o EXT_DDS

====
